---- MODULE Spec2Model ----
(***************************************************************************)
(* A model of the red-black tree map of src/src/rbtree (RbTree, RbNode).   *)
(*                                                                         *)
(* The heap is a function from node addresses to RawNode records.  Node    *)
(* handles (RbNode) are addresses and are compared by identity only, as    *)
(* RbNode::eq does.  Every public operation of RbTree is one action that   *)
(* runs the whole method on the machine record                             *)
(*     [heap, root, len, panic, ret, recol, rot, cases]                    *)
(* and stores the result in the variables.  K is modelled by 1..MaxKey     *)
(* with the usual order; V is a type the code never inspects, modelled by  *)
(* two distinguishable values.                                             *)
(***************************************************************************)
EXTENDS Integers, Sequences, FiniteSets, TLC

VARIABLES heap, root, len, panic, last, amap, call, tick

vars == <<heap, root, len, panic, last, amap, call, tick>>

\* ------------------------------------------------------------------ bounds
\* keys are 1..MaxKey
MaxKey == 6
\* where the callers store different values, keys are 1..MaxValKey
MaxValKey == 4
\* insert of a new key is only tried while len < MaxLen
MaxLen == MaxKey

Keys == 1..MaxKey
ValKeys == 1..MaxValKey
Vals == {"v1", "v2"}

\* a caller's batch <<n, p>>: the first n of these keys are inserted in this
\* order into an empty tree, then pop_last() is called p times.  ShortBatch
\* leaves the seven keys 1..7 in a tree of three full levels of Black nodes,
\* from which a removal runs the deletion loop at two levels; from the trees
\* of DeepBatches a removal goes through case 3 and then through case 2, 4, 5
\* or 6 one level up
BatchKeys == <<1, 2, 3, 4, 5, 6, 7, 8, 9, 10, 11, 12, 13, 14>>
ShortBatch == <<10, 3>>
DeepBatches == {<<10, 0>>, <<12, 2>>, <<14, 0>>, <<14, 2>>}

\* every key a tree can hold
AllKeys == Keys \cup {BatchKeys[i] : i \in 1..Len(BatchKeys)}

\* Option<RbNode>::None
None == 0
\* the contents of an uninitialised MaybeUninit<K> and MaybeUninit<V>
NoKey == 0
NoValue == "uninit"
\* a handle whose node has been released
Dangling == -1

NoPanic == "none"

\* ------------------------------------------------------------------ RbNode
\* node.rs RbNode::is_nil
is_nil(h, n) == h[n].rb_node_type = "Nil"

\* node.rs RbNode::is_black: everything that is not Red
is_black(h, n) == h[n].rb_node_type # "Red"

\* node.rs RbNode::is_red
is_red(h, n) == ~is_black(h, n)

\* the address Box::new hands out: any free address; the least one is taken
NewAddr(h) == CHOOSE i \in 1..(Cardinality(DOMAIN h) + 1) :
                 /\ i \notin DOMAIN h
                 /\ \A j \in 1..(i - 1) : j \in DOMAIN h

\* node.rs RawNode as RbNode::new builds it
RawNil(parent) ==
    [key |-> NoKey, value |-> NoValue, key_value_moved |-> TRUE,
     rb_node_type |-> "Nil", parent |-> parent, left |-> None, right |-> None]

\* node.rs RbNode::new: heap after allocating a Nil node with the given parent
RbNodeNew(h, parent) ==
    LET a == NewAddr(h)
    IN  [i \in DOMAIN h \cup {a} |-> IF i = a THEN RawNil(parent) ELSE h[i]]

\* drop(Box::from_raw(node)): the node's storage is released
BoxDrop(h, n) == [i \in DOMAIN h \ {n} |-> h[i]]

\* the machine aborts: the first panic is kept
Panic(m, msg) == IF m.panic = NoPanic THEN [m EXCEPT !.panic = msg] ELSE m

Panicked(m) == m.panic # NoPanic

\* node.rs RbNode::set_black; recol counts the recolourings a call has made
set_black(m, n) ==
    IF Panicked(m) THEN m
    ELSE IF n = None THEN Panic(m, "unwrap on None")
    ELSE IF m.heap[n].rb_node_type = "Nil" THEN Panic(m, "Modifying Nil is prohibited")
    ELSE [m EXCEPT !.heap[n].rb_node_type = "Black", !.recol = @ + 1]

\* node.rs RbNode::set_red
set_red(m, n) ==
    IF Panicked(m) THEN m
    ELSE IF n = None THEN Panic(m, "unwrap on None")
    ELSE IF m.heap[n].rb_node_type = "Nil" THEN Panic(m, "Modifying Nil is prohibited")
    ELSE [m EXCEPT !.heap[n].rb_node_type = "Red", !.recol = @ + 1]

\* node.rs RbNode::init with a non-Nil type: key and value written, two fresh
\* Nil children, then the colour
init(m, n, key, value, rb_node_type) ==
    IF rb_node_type = "Nil" THEN m
    ELSE
    LET h0 == m.heap
        l  == NewAddr(h0)
        h1 == RbNodeNew(h0, n)
        r  == NewAddr(h1)
        h2 == RbNodeNew(h1, n)
    IN  [m EXCEPT !.heap = [h2 EXCEPT ![n] =
            [@ EXCEPT !.key = key, !.value = value, !.key_value_moved = FALSE,
                      !.left = l, !.right = r, !.rb_node_type = rb_node_type]]]

\* what RbNode::uninit of n releases, in order: the key and value of n unless
\* moved, its left child's node, its right child's node
Released(h, n) ==
    (IF h[n].key_value_moved THEN <<>> ELSE << <<"drop", h[n].key>> >>)
    \o (IF h[n].left # None THEN << <<"free", h[n].left>> >> ELSE <<>>)
    \o (IF h[n].right # None THEN << <<"free", h[n].right>> >> ELSE <<>>)

\* uninit that leaves the node's colour as it was
uninit_type_kept(m, n) ==
    IF Panicked(m) THEN m
    ELSE
    LET h0 == m.heap
        h1 == IF h0[n].key_value_moved
              THEN h0
              ELSE [h0 EXCEPT ![n].key = NoKey, ![n].value = NoValue,
                              ![n].key_value_moved = TRUE]
        l  == h0[n].left
        r  == h0[n].right
    IN  IF l # None /\ ~is_nil(h1, l) THEN Panic([m EXCEPT !.heap = h1], "Left child is not Nil")
        ELSE
        LET h2 == IF l # None THEN BoxDrop(h1, l) ELSE h1
        IN  IF r # None /\ ~is_nil(h2, r)
            THEN Panic([m EXCEPT !.heap = h2], "Right child is not Nil")
            ELSE
            LET h3 == IF r # None THEN BoxDrop(h2, r) ELSE h2
            IN  [m EXCEPT !.heap = [h3 EXCEPT ![n].left = None, ![n].right = None],
                          !.rel = @ \o Released(h0, n)]

\* node.rs RbNode::uninit: the key and value are dropped unless moved, the node
\* becomes Nil, its Nil children are released; a real child is a panic
uninit(m, n) ==
    IF Panicked(m) THEN m
    ELSE
    LET h0 == m.heap
        h1 == IF h0[n].key_value_moved
              THEN [h0 EXCEPT ![n].rb_node_type = "Nil"]
              ELSE [h0 EXCEPT ![n].key = NoKey, ![n].value = NoValue,
                              ![n].key_value_moved = TRUE, ![n].rb_node_type = "Nil"]
        l  == h0[n].left
        r  == h0[n].right
    IN  IF l # None /\ ~is_nil(h1, l) THEN Panic([m EXCEPT !.heap = h1], "Left child is not Nil")
        ELSE
        LET h2 == IF l # None THEN BoxDrop(h1, l) ELSE h1
        IN  IF r # None /\ ~is_nil(h2, r)
            THEN Panic([m EXCEPT !.heap = h2], "Right child is not Nil")
            ELSE
            LET h3 == IF r # None THEN BoxDrop(h2, r) ELSE h2
            IN  [m EXCEPT !.heap = [h3 EXCEPT ![n].left = None, ![n].right = None],
                          !.rel = @ \o Released(h0, n)]

\* ------------------------------------------------------------------ search
\* find_walk with the two comparisons exchanged
RECURSIVE find_walk_swapped(_, _, _)
find_walk_swapped(h, cur, key) ==
    IF cur = None THEN None
    ELSE IF is_nil(h, cur) THEN cur
    ELSE IF key > h[cur].key THEN find_walk_swapped(h, h[cur].left, key)
    ELSE IF key < h[cur].key THEN find_walk_swapped(h, h[cur].right, key)
    ELSE cur

\* mod.rs RbTree::find_nearest_node: the loop from cur; None stands for the
\* panic of an unwrap on a missing child
RECURSIVE find_walk(_, _, _)
find_walk(h, cur, key) ==
    IF cur = None THEN None
    ELSE IF is_nil(h, cur) THEN cur
    ELSE IF key < h[cur].key THEN find_walk(h, h[cur].left, key)
    ELSE IF key > h[cur].key THEN find_walk(h, h[cur].right, key)
    ELSE cur

find_nearest_node(m, key) == find_walk(m.heap, m.root, key)

\* min_walk that follows the right children, as max_node does
RECURSIVE min_walk_right(_, _)
min_walk_right(h, cur) ==
    LET right == h[cur].right
    IN  IF right = None THEN None
        ELSE IF is_nil(h, right) THEN cur
        ELSE min_walk_right(h, right)

\* mod.rs RbTree::min_node: the loop from cur (a real node)
RECURSIVE min_walk(_, _)
min_walk(h, cur) ==
    LET left == h[cur].left
    IN  IF left = None THEN None
        ELSE IF is_nil(h, left) THEN cur
        ELSE min_walk(h, left)

\* mod.rs RbTree::min_node
min_node(h, node) == IF is_nil(h, node) THEN node ELSE min_walk(h, node)

\* mod.rs RbTree::max_node: the loop from cur (a real node)
RECURSIVE max_walk(_, _)
max_walk(h, cur) ==
    LET right == h[cur].right
    IN  IF right = None THEN None
        ELSE IF is_nil(h, right) THEN cur
        ELSE max_walk(h, right)

\* mod.rs RbTree::max_node
max_node(h, node) == IF is_nil(h, node) THEN node ELSE max_walk(h, node)

\* ------------------------------------------------------------------ rotations
\* rotate_left that leaves the parent of the subtree handed over as it was
rotate_left_inner_parent_kept(m, node) ==
    IF Panicked(m) THEN m
    ELSE IF node = None THEN Panic(m, "unwrap on None")
    ELSE
    LET h      == m.heap
        right  == h[node].right
        parent == h[node].parent
    IN  IF right = None THEN Panic(m, "Right Child should not be None")
        ELSE
        LET right_left == h[right].left
            h2 == [h EXCEPT ![node].right = right_left, ![node].parent = right,
                            ![right].left = node, ![right].parent = parent]
        IN  IF parent # None
            THEN IF h2[parent].left = node
                 THEN [m EXCEPT !.heap = [h2 EXCEPT ![parent].left = right], !.rot = @ + 1]
                 ELSE [m EXCEPT !.heap = [h2 EXCEPT ![parent].right = right], !.rot = @ + 1]
            ELSE [m EXCEPT !.heap = h2, !.root = right, !.rot = @ + 1]

\* mod.rs RbTree::rotate_left; rot counts the rotations a call has made
rotate_left(m, node) ==
    IF Panicked(m) THEN m
    ELSE IF node = None THEN Panic(m, "unwrap on None")
    ELSE
    LET h      == m.heap
        right  == h[node].right
        parent == h[node].parent
    IN  IF right = None THEN Panic(m, "Right Child should not be None")
        ELSE
        LET right_left == h[right].left
            h1 == IF right_left # None THEN [h EXCEPT ![right_left].parent = node] ELSE h
            h2 == [h1 EXCEPT ![node].right = right_left, ![node].parent = right,
                             ![right].left = node, ![right].parent = parent]
        IN  IF parent # None
            THEN IF h2[parent].left = node
                 THEN [m EXCEPT !.heap = [h2 EXCEPT ![parent].left = right], !.rot = @ + 1]
                 ELSE [m EXCEPT !.heap = [h2 EXCEPT ![parent].right = right], !.rot = @ + 1]
            ELSE [m EXCEPT !.heap = h2, !.root = right, !.rot = @ + 1]

\* rotate_right that leaves self.root as it was when node is the root
rotate_right_root_kept(m, node) ==
    IF Panicked(m) THEN m
    ELSE IF node = None THEN Panic(m, "unwrap on None")
    ELSE
    LET h      == m.heap
        left   == h[node].left
        parent == h[node].parent
    IN  IF left = None THEN Panic(m, "Left Child should not be None")
        ELSE
        LET left_right == h[left].right
            h1 == IF left_right # None THEN [h EXCEPT ![left_right].parent = node] ELSE h
            h2 == [h1 EXCEPT ![node].left = left_right, ![node].parent = left,
                             ![left].right = node, ![left].parent = parent]
        IN  IF parent # None
            THEN IF h2[parent].right = node
                 THEN [m EXCEPT !.heap = [h2 EXCEPT ![parent].right = left], !.rot = @ + 1]
                 ELSE [m EXCEPT !.heap = [h2 EXCEPT ![parent].left = left], !.rot = @ + 1]
            ELSE [m EXCEPT !.heap = h2, !.rot = @ + 1]

\* mod.rs RbTree::rotate_right
rotate_right(m, node) ==
    IF Panicked(m) THEN m
    ELSE IF node = None THEN Panic(m, "unwrap on None")
    ELSE
    LET h      == m.heap
        left   == h[node].left
        parent == h[node].parent
    IN  IF left = None THEN Panic(m, "Left Child should not be None")
        ELSE
        LET left_right == h[left].right
            h1 == IF left_right # None THEN [h EXCEPT ![left_right].parent = node] ELSE h
            h2 == [h1 EXCEPT ![node].left = left_right, ![node].parent = left,
                             ![left].right = node, ![left].parent = parent]
        IN  IF parent # None
            THEN IF h2[parent].right = node
                 THEN [m EXCEPT !.heap = [h2 EXCEPT ![parent].right = left], !.rot = @ + 1]
                 ELSE [m EXCEPT !.heap = [h2 EXCEPT ![parent].left = left], !.rot = @ + 1]
            ELSE [m EXCEPT !.heap = h2, !.root = left, !.rot = @ + 1]

\* ------------------------------------------------------------------ insert
\* Option::None / Some(v) / Some((k, v)) as returned by the map methods
RetNone == <<>>
RetSome(v) == <<v>>
RetPair(k, v) == <<k, v>>

\* mod.rs RbTree::insert, cases 4 and 5: align the two Red nodes, then the
\* final recolouring and rotation
insert_final(m, cur0) ==
    LET h0 == m.heap
        parent0 == h0[cur0].parent
    IN  IF parent0 = None THEN Panic(m, "unwrap on None")
        ELSE
        LET grand_parent0 == h0[parent0].parent
        IN  IF grand_parent0 = None THEN Panic(m, "unwrap on None")
            ELSE
            LET zigL == cur0 = h0[parent0].right /\ parent0 = h0[grand_parent0].left
                zigR == cur0 = h0[parent0].left /\ parent0 = h0[grand_parent0].right
                m1  == IF zigL THEN rotate_left(m, parent0)
                       ELSE IF zigR THEN rotate_right(m, parent0)
                       ELSE m
                cur == IF zigL \/ zigR THEN parent0 ELSE cur0
                h1  == m1.heap
                parent == h1[cur].parent
            IN  IF Panicked(m1) THEN m1
                ELSE IF parent = None THEN Panic(m1, "unwrap on None")
                ELSE
                LET grand_parent == h1[parent].parent
                IN  IF grand_parent = None THEN Panic(m1, "unwrap on None")
                    ELSE
                    LET m2 == set_red(set_black(m1, parent), grand_parent)
                    IN  IF Panicked(m2) THEN m2
                        ELSE IF cur = m2.heap[parent].left
                        THEN rotate_right(m2, grand_parent)
                        ELSE rotate_left(m2, grand_parent)

\* insert_loop whose case 3 recolours without looking at the uncle's colour
RECURSIVE insert_loop_uncle_unchecked(_, _)
insert_loop_uncle_unchecked(m, cur) ==
    LET h == m.heap
        parent == h[cur].parent
    IN  IF Panicked(m) THEN m
        ELSE IF parent = None THEN set_black(m, cur)
        ELSE IF is_black(h, parent) THEN m
        ELSE
        LET grand_parent == h[parent].parent
        IN  IF grand_parent = None THEN Panic(m, "unwrap on None")
            ELSE
            LET uncle == IF h[grand_parent].left = parent
                         THEN h[grand_parent].right
                         ELSE h[grand_parent].left
            IN  IF uncle = None THEN Panic(m, "unwrap on None")
                ELSE insert_loop_uncle_unchecked(
                        set_red(set_black(set_black(m, parent), uncle), grand_parent),
                        grand_parent)

\* mod.rs RbTree::insert, the loop of cases 1 to 3 from cur, then the rest
RECURSIVE insert_loop(_, _)
insert_loop(m, cur) ==
    LET h == m.heap
        parent == h[cur].parent
    IN  IF Panicked(m) THEN m
        ELSE IF parent = None THEN set_black(m, cur)
        ELSE IF is_black(h, parent) THEN m
        ELSE
        LET grand_parent == h[parent].parent
        IN  IF grand_parent = None THEN Panic(m, "unwrap on None")
            ELSE
            LET uncle == IF h[grand_parent].left = parent
                         THEN h[grand_parent].right
                         ELSE h[grand_parent].left
            IN  IF uncle = None THEN Panic(m, "unwrap on None")
                ELSE IF is_black(h, uncle) THEN insert_final(m, cur)
                ELSE insert_loop(
                        set_red(set_black(set_black(m, parent), uncle), grand_parent),
                        grand_parent)

\* insert's replacement of a value that returns the value just written
insert_replace_returns_new(m, cur, value) ==
    [m EXCEPT !.heap[cur].value = value, !.ret = RetSome(value)]

\* mod.rs RbTree::insert when the key is in the tree (cur is its node): the
\* value is replaced and the old one returned
insert_replace(m, cur, value) ==
    [m EXCEPT !.heap[cur].value = value, !.ret = RetSome(m.heap[cur].value)]

\* insert of a new key that returns before case 1 when the new node is the root
insert_new_root_left_red(m, cur, key, value) ==
    LET m1 == init(m, cur, key, value, "Red")
        m2 == [m1 EXCEPT !.len = @ + 1, !.ret = RetNone]
    IN  IF m2.heap[cur].parent = None THEN m2 ELSE insert_loop(m2, cur)

\* insert of a new key that leaves len as it was
insert_new_len_kept(m, cur, key, value) ==
    LET m1 == init(m, cur, key, value, "Red")
        m2 == [m1 EXCEPT !.ret = RetNone]
    IN  insert_loop(m2, cur)

\* mod.rs RbTree::insert when the key is not in the tree (cur is the sentinel
\* at its place): the sentinel becomes a Red node, len grows, the colours and
\* shape are repaired
insert_new(m, cur, key, value) ==
    LET m1 == init(m, cur, key, value, "Red")
        m2 == [m1 EXCEPT !.len = @ + 1, !.ret = RetNone]
    IN  insert_loop(m2, cur)

\* mod.rs RbTree::insert
insert(m, key, value) ==
    LET cur == find_nearest_node(m, key)
    IN  IF cur = None THEN Panic(m, "unwrap on None")
        ELSE IF ~is_nil(m.heap, cur) THEN insert_replace(m, cur, value)
        ELSE insert_new(m, cur, key, value)

\* mod.rs RbTree::insert called for each key of ks in turn, from m
RECURSIVE insert_all(_, _)
insert_all(m, ks) ==
    IF ks = <<>> \/ Panicked(m) THEN m
    ELSE insert_all(insert(m, ks[1], "v1"), SubSeq(ks, 2, Len(ks)))

\* ------------------------------------------------------------------ remove
\* the sibling of node under parent, as mod.rs computes it three times in
\* remove_entry (None when the unwrap would panic)
sibling_of(h, parent, node) ==
    IF h[parent].left = node THEN h[parent].right ELSE h[parent].left

\* the short-circuit chain `first && sibling.is_black() &&
\* sibling.left.unwrap().is_black() && sibling.right.unwrap().is_black()` of
\* cases 3 and 4: "T", "F", or "P" when an unwrap panics
black_chain(h, first, sibling) ==
    IF ~first THEN "F"
    ELSE IF ~is_black(h, sibling) THEN "F"
    ELSE IF h[sibling].left = None THEN "P"
    ELSE IF ~is_black(h, h[sibling].left) THEN "F"
    ELSE IF h[sibling].right = None THEN "P"
    ELSE IF is_black(h, h[sibling].right) THEN "T"
    ELSE "F"

\* remove_case6 without blackening the far nephew
remove_case6_nephew_kept(m, node, parent) ==
    IF Panicked(m) THEN m
    ELSE
    LET sibling == sibling_of(m.heap, parent, node)
    IN  IF sibling = None THEN Panic(m, "unwrap on None")
        ELSE
        LET m1 == [m EXCEPT !.heap[sibling].rb_node_type = m.heap[parent].rb_node_type]
            m2 == set_black(m1, parent)
        IN  IF Panicked(m2) THEN m2
            ELSE IF m2.heap[parent].left = node
            THEN rotate_left(m2, parent)
            ELSE rotate_right(m2, parent)

\* the deletion fixup goes through case c (1 to 6, as the comments of
\* remove_entry number them): cases keeps them in order
Case(m, c) == IF Panicked(m) THEN m ELSE [m EXCEPT !.cases = Append(@, c)]

\* mod.rs RbTree::remove_entry, case 6: sibling takes the parent's colour, the
\* parent and the far nephew become Black, the parent is rotated towards node
remove_case6(m, node, parent) ==
    IF Panicked(m) THEN m
    ELSE
    LET sibling == sibling_of(m.heap, parent, node)
    IN  IF sibling = None THEN Panic(m, "unwrap on None")
        ELSE
        LET m1 == [m EXCEPT !.heap[sibling].rb_node_type = m.heap[parent].rb_node_type]
            m2 == set_black(Case(m1, 6), parent)
            h2 == m2.heap
        IN  IF Panicked(m2) THEN m2
            ELSE IF h2[parent].left = node
            THEN IF h2[sibling].right = None THEN Panic(m2, "unwrap on None")
                 ELSE rotate_left(set_black(m2, h2[sibling].right), parent)
            ELSE IF h2[sibling].left = None THEN Panic(m2, "unwrap on None")
                 ELSE rotate_right(set_black(m2, h2[sibling].left), parent)

\* mod.rs RbTree::remove_entry, case 5: a Black sibling whose near child is Red
\* and far child Black is recoloured and rotated away from node
remove_case5(m, node, parent, sibling) ==
    LET h == m.heap
    IN  IF ~is_black(h, sibling) THEN m
        ELSE IF h[parent].left = node
        THEN IF h[sibling].right = None THEN Panic(m, "unwrap on None")
             ELSE IF ~is_black(h, h[sibling].right) THEN m
             ELSE IF h[sibling].left = None THEN Panic(m, "unwrap on None")
             ELSE IF ~is_red(h, h[sibling].left) THEN m
             ELSE rotate_right(set_black(set_red(Case(m, 5), sibling), h[sibling].left), sibling)
        ELSE IF h[parent].right = node
        THEN IF h[sibling].left = None THEN Panic(m, "unwrap on None")
             ELSE IF ~is_black(h, h[sibling].left) THEN m
             ELSE IF h[sibling].right = None THEN Panic(m, "unwrap on None")
             ELSE IF ~is_red(h, h[sibling].right) THEN m
             ELSE rotate_left(set_black(set_red(Case(m, 5), sibling), h[sibling].right), sibling)
        ELSE m

\* remove_final whose case 4 reddens the sibling and leaves the parent Red
remove_final_parent_kept(m, node, parent, sibling) ==
    LET h  == m.heap
        c4 == black_chain(h, is_red(h, parent), sibling)
    IN  IF c4 = "P" THEN Panic(m, "unwrap on None")
        ELSE IF c4 = "T" THEN set_red(m, sibling)
        ELSE remove_case6(remove_case5(m, node, parent, sibling), node, parent)

\* mod.rs RbTree::remove_entry after the loop: case 4, else cases 5 and 6
remove_final(m, node, parent, sibling) ==
    LET h  == m.heap
        c4 == black_chain(h, is_red(h, parent), sibling)
    IN  IF c4 = "P" THEN Panic(m, "unwrap on None")
        ELSE IF c4 = "T" THEN set_black(set_red(Case(m, 4), sibling), parent)
        ELSE remove_case6(remove_case5(m, node, parent, sibling), node, parent)

\* remove_loop whose case 2 blackens the sibling and leaves the parent's colour
RECURSIVE remove_loop_parent_left_black(_, _)
remove_loop_parent_left_black(m, node) ==
    LET h0 == m.heap
        parent == h0[node].parent
    IN  IF Panicked(m) THEN m
        ELSE IF parent = None THEN Case(m, 1)
        ELSE
        LET sibling0 == sibling_of(h0, parent, node)
        IN  IF sibling0 = None THEN Panic(m, "unwrap on None")
            ELSE
            LET m1 == IF is_red(h0, sibling0)
                      THEN LET mc == set_black(Case(m, 2), sibling0)
                           IN  IF h0[parent].left = node
                               THEN rotate_left(mc, parent)
                               ELSE rotate_right(mc, parent)
                      ELSE m
                h1 == m1.heap
                sibling == sibling_of(h1, parent, node)
            IN  IF Panicked(m1) THEN m1
                ELSE IF sibling = None THEN Panic(m1, "unwrap on None")
                ELSE
                LET c3 == black_chain(h1, is_black(h1, parent), sibling)
                IN  IF c3 = "P" THEN Panic(m1, "unwrap on None")
                    ELSE IF c3 = "T"
                    THEN remove_loop_parent_left_black(set_red(Case(m1, 3), sibling), parent)
                    ELSE remove_final(m1, node, parent, sibling)

\* mod.rs RbTree::remove_entry, the fixup loop from node (cases 1 to 3), then
\* the rest
RECURSIVE remove_loop(_, _)
remove_loop(m, node) ==
    LET h0 == m.heap
        parent == h0[node].parent
    IN  IF Panicked(m) THEN m
        ELSE IF parent = None THEN Case(m, 1)
        ELSE
        LET sibling0 == sibling_of(h0, parent, node)
        IN  IF sibling0 = None THEN Panic(m, "unwrap on None")
            ELSE
            LET m1 == IF is_red(h0, sibling0)
                      THEN LET mc == set_black(set_red(Case(m, 2), parent), sibling0)
                           IN  IF h0[parent].left = node
                               THEN rotate_left(mc, parent)
                               ELSE rotate_right(mc, parent)
                      ELSE m
                h1 == m1.heap
                sibling == sibling_of(h1, parent, node)
            IN  IF Panicked(m1) THEN m1
                ELSE IF sibling = None THEN Panic(m1, "unwrap on None")
                ELSE
                LET c3 == black_chain(h1, is_black(h1, parent), sibling)
                IN  IF c3 = "P" THEN Panic(m1, "unwrap on None")
                    ELSE IF c3 = "T" THEN remove_loop(set_red(Case(m1, 3), sibling), parent)
                    ELSE remove_final(m1, node, parent, sibling)

\* mod.rs RbTree::remove_entry from `target.key_value_moved = true` on: the
\* child replaces target, target is released, then the colour cases
remove_unlink(m, target, removed_key_value) ==
    LET h0 == [m.heap EXCEPT ![target].key_value_moved = TRUE]
        tl == h0[target].left
        tr == h0[target].right
    IN  IF tl = None THEN Panic(m, "unwrap on None")
        ELSE IF is_nil(h0, tl) /\ tr = None THEN Panic(m, "unwrap on None")
        ELSE
        LET child  == IF is_nil(h0, tl) THEN tr ELSE tl
            parent == h0[target].parent
            h1 == [h0 EXCEPT ![child].parent = parent]
            h2 == IF parent # None
                  THEN IF h1[parent].left = target
                       THEN [h1 EXCEPT ![parent].left = child]
                       ELSE [h1 EXCEPT ![parent].right = child]
                  ELSE h1
            root2 == IF parent # None THEN m.root ELSE child
            h3 == IF h2[target].left = child
                  THEN [h2 EXCEPT ![target].left = None]
                  ELSE [h2 EXCEPT ![target].right = None]
            target_rb_node_type == h3[target].rb_node_type
            m3 == uninit([m EXCEPT !.heap = h3, !.root = root2], target)
        IN  IF Panicked(m3) THEN m3
            ELSE
            LET m4 == [m3 EXCEPT !.heap = BoxDrop(m3.heap, target),
                                 !.rel = Append(@, <<"free", target>>),
                                 !.len = @ - 1,
                                 !.ret = removed_key_value]
            IN  IF target_rb_node_type = "Red" THEN m4
                ELSE IF target_rb_node_type = "Black"
                THEN IF is_red(m4.heap, child) THEN set_black(m4, child)
                     ELSE remove_loop(m4, child)
                ELSE Panic(m4, "unreachable")

\* remove_entry that releases the successor without moving its key and value
\* into the found node
remove_entry_no_splice(m, key) ==
    LET target == find_nearest_node(m, key)
        h == m.heap
    IN  IF target = None THEN Panic(m, "unwrap on None")
        ELSE IF is_nil(h, target) THEN [m EXCEPT !.ret = RetNone]
        ELSE IF h[target].right = None THEN Panic(m, "unwrap on None")
        ELSE
        LET right_min == min_node(h, h[target].right)
            removed_key_value == RetPair(h[target].key, h[target].value)
        IN  IF right_min = None THEN Panic(m, "unwrap on None")
            ELSE IF ~is_nil(h, right_min)
            THEN remove_unlink(m, right_min, removed_key_value)
            ELSE remove_unlink(m, target, removed_key_value)

\* remove_entry that reads the pair to return after the successor's key and
\* value were moved into the found node
remove_entry_returns_spliced(m, key) ==
    LET target == find_nearest_node(m, key)
        h == m.heap
    IN  IF target = None THEN Panic(m, "unwrap on None")
        ELSE IF is_nil(h, target) THEN [m EXCEPT !.ret = RetNone]
        ELSE IF h[target].right = None THEN Panic(m, "unwrap on None")
        ELSE
        LET right_min == min_node(h, h[target].right)
        IN  IF right_min = None THEN Panic(m, "unwrap on None")
            ELSE IF ~is_nil(h, right_min)
            THEN remove_unlink(
                    [m EXCEPT !.heap[target].key = h[right_min].key,
                              !.heap[target].value = h[right_min].value],
                    right_min, RetPair(h[right_min].key, h[right_min].value))
            ELSE remove_unlink(m, target, RetPair(h[target].key, h[target].value))

\* remove_entry that unlinks the node it found, whatever its children
remove_entry_unlinks_found(m, key) ==
    LET target == find_nearest_node(m, key)
        h == m.heap
    IN  IF target = None THEN Panic(m, "unwrap on None")
        ELSE IF is_nil(h, target) THEN [m EXCEPT !.ret = RetNone]
        ELSE remove_unlink(m, target, RetPair(h[target].key, h[target].value))

\* remove_entry that goes on to unlink the node the search ended at when that
\* node is a sentinel
remove_entry_no_early_return(m, key) ==
    LET target == find_nearest_node(m, key)
        h == m.heap
    IN  IF target = None THEN Panic(m, "unwrap on None")
        ELSE IF h[target].right = None THEN Panic(m, "unwrap on None")
        ELSE
        LET right_min == min_node(h, h[target].right)
            removed_key_value == RetPair(h[target].key, h[target].value)
        IN  IF right_min = None THEN Panic(m, "unwrap on None")
            ELSE IF ~is_nil(h, right_min)
            THEN remove_unlink(
                    [m EXCEPT !.heap[target].key = h[right_min].key,
                              !.heap[target].value = h[right_min].value],
                    right_min, removed_key_value)
            ELSE remove_unlink(m, target, removed_key_value)

\* mod.rs RbTree::remove_entry
remove_entry(m, key) ==
    LET target == find_nearest_node(m, key)
        h == m.heap
    IN  IF target = None THEN Panic(m, "unwrap on None")
        ELSE IF is_nil(h, target) THEN [m EXCEPT !.ret = RetNone]
        ELSE IF h[target].right = None THEN Panic(m, "unwrap on None")
        ELSE
        LET right_min == min_node(h, h[target].right)
            removed_key_value == RetPair(h[target].key, h[target].value)
        IN  IF right_min = None THEN Panic(m, "unwrap on None")
            ELSE IF ~is_nil(h, right_min)
            THEN remove_unlink(
                    [m EXCEPT !.heap[target].key = h[right_min].key,
                              !.heap[target].value = h[right_min].value],
                    right_min, removed_key_value)
            ELSE remove_unlink(m, target, removed_key_value)

\* mod.rs RbTree::remove
remove(m, key) ==
    LET m1 == remove_entry(m, key)
    IN  IF Panicked(m1) \/ m1.ret = RetNone THEN m1
        ELSE [m1 EXCEPT !.ret = RetSome(m1.ret[2])]

\* ------------------------------------------------------------------ clear, pop
\* mod.rs RbTree::clear, the work-stack loop (the top of the Vec is the end of
\* the sequence)
RECURSIVE clear_loop(_, _)
clear_loop(m, stack) ==
    IF Panicked(m) \/ stack = <<>> THEN m
    ELSE
    LET cur  == stack[Len(stack)]
        rest == SubSeq(stack, 1, Len(stack) - 1)
        h    == m.heap
        l    == h[cur].left
        r    == h[cur].right
    IN  IF l = None \/ r = None THEN Panic(m, "unwrap on None")
        ELSE
        LET left_is_nil  == is_nil(h, l)
            right_is_nil == is_nil(h, r)
        IN  IF left_is_nil /\ right_is_nil
            THEN clear_loop(uninit(m, cur), rest)
            ELSE clear_loop(m,
                    Append(rest, cur)
                    \o (IF ~right_is_nil THEN <<r>> ELSE <<>>)
                    \o (IF ~left_is_nil THEN <<l>> ELSE <<>>))

\* mod.rs RbTree::clear
clear(m) ==
    IF is_nil(m.heap, m.root) THEN [m EXCEPT !.ret = RetNone]
    ELSE clear_loop([m EXCEPT !.ret = RetNone], <<m.root>>)

\* mod.rs RbTree::pop_first
pop_first(m) ==
    LET target == min_node(m.heap, m.root)
    IN  IF target = None THEN Panic(m, "unwrap on None")
        ELSE IF is_nil(m.heap, target) THEN [m EXCEPT !.ret = RetNone]
        ELSE remove_entry(m, m.heap[target].key)

\* mod.rs RbTree::pop_last
pop_last(m) ==
    LET target == max_node(m.heap, m.root)
    IN  IF target = None THEN Panic(m, "unwrap on None")
        ELSE IF is_nil(m.heap, target) THEN [m EXCEPT !.ret = RetNone]
        ELSE remove_entry(m, m.heap[target].key)

\* ------------------------------------------------------------------ queries
\* mod.rs RbTree::len
len_of(m) == m.len

\* mod.rs RbTree::is_empty
is_empty(m) == m.len = 0

\* mod.rs RbTree::get: RetNone or RetSome(value)
get(m, key) ==
    LET target == find_nearest_node(m, key)
    IN  IF target = None \/ is_nil(m.heap, target) THEN RetNone
        ELSE RetSome(m.heap[target].value)

\* mod.rs RbTree::get_key_value: RetNone or RetPair(key, value)
get_key_value(m, key) ==
    LET target == find_nearest_node(m, key)
    IN  IF target = None \/ is_nil(m.heap, target) THEN RetNone
        ELSE RetPair(m.heap[target].key, m.heap[target].value)

\* mod.rs RbTree::contains_key
contains_key(m, key) ==
    LET target == find_nearest_node(m, key)
    IN  target # None /\ ~is_nil(m.heap, target)

\* a reference to the value stored in node: `&V` (mutable = FALSE) or `&mut V`
Ref(node, mutable) == [node |-> node, mutable |-> mutable]

\* mod.rs RbTree::get_mut: declared to return Option<&V>, so the reference
\* handed out is a shared one
get_mut(m, key) ==
    LET target == find_nearest_node(m, key)
    IN  IF target = None THEN Panic(m, "unwrap on None")
        ELSE IF is_nil(m.heap, target) THEN [m EXCEPT !.ret = RetNone]
        ELSE [m EXCEPT !.ret = RetSome(Ref(target, FALSE))]

\* index that reads the value of whatever node the search ended at
index_unchecked(m, key) ==
    LET target == find_nearest_node(m, key)
    IN  IF target = None THEN Panic(m, "unwrap on None")
        ELSE [m EXCEPT !.ret = <<m.heap[target].value>>]

\* mod.rs Index::index: the value behind the &V returned, or the panic
index(m, key) ==
    LET target == find_nearest_node(m, key)
    IN  IF target = None THEN Panic(m, "unwrap on None")
        ELSE IF is_nil(m.heap, target) THEN Panic(m, "key not found")
        ELSE [m EXCEPT !.ret = <<m.heap[target].value>>]

\* mod.rs IndexMut::index_mut: the &mut V returned, or the panic
index_mut(m, key) ==
    LET target == find_nearest_node(m, key)
    IN  IF target = None THEN Panic(m, "unwrap on None")
        ELSE IF is_nil(m.heap, target) THEN Panic(m, "key not found")
        ELSE [m EXCEPT !.ret = <<Ref(target, TRUE)>>]

\* `*r = value` by a caller that holds the reference r; it compiles only for a
\* `&mut V`
assign(m, r, value) == [m EXCEPT !.heap[r.node].value = value]

\* ------------------------------------------------------------------ checker
\* the Err(()) of check_rb_tree_attribute
Err == -1

\* mod.rs RbTree::check_rb_tree_attribute: the black count below and including
\* node, or Err when two subtrees disagree (`?` returns the first Err)
RECURSIVE check_rb_tree_attribute(_, _)
check_rb_tree_attribute(h, node) ==
    LET left_black_count ==
            IF h[node].left # None THEN check_rb_tree_attribute(h, h[node].left) ELSE 0
    IN  IF left_black_count = Err THEN Err
        ELSE
        LET right_black_count ==
                IF h[node].right # None THEN check_rb_tree_attribute(h, h[node].right) ELSE 0
        IN  IF right_black_count = Err THEN Err
            ELSE IF left_black_count # right_black_count THEN Err
            ELSE left_black_count + (IF is_black(h, node) THEN 1 ELSE 0)

\* mod.rs RbTree::is_correct_rb_tree
is_correct_rb_tree(m) == check_rb_tree_attribute(m.heap, m.root) # Err

\* ------------------------------------------------------------------ iteration
\* iter_next that descends to the right and continues into the left subtree
RECURSIVE iter_next_right_first(_, _, _)
iter_next_right_first(h, cur, stack) ==
    IF cur = None
    THEN [some |-> FALSE, fault |-> TRUE, cur |-> cur, stack |-> stack, next |-> None]
    ELSE IF stack # <<>> \/ ~is_nil(h, cur)
    THEN IF ~is_nil(h, cur)
         THEN iter_next_right_first(h, h[cur].right, Append(stack, cur))
         ELSE LET top == stack[Len(stack)]
              IN  [some |-> TRUE, fault |-> FALSE, cur |-> h[top].left,
                   stack |-> SubSeq(stack, 1, Len(stack) - 1), next |-> top]
    ELSE [some |-> FALSE, fault |-> FALSE, cur |-> cur, stack |-> stack, next |-> None]

\* mod.rs iter_next: the loop from (cur, stack).  some = FALSE is the None
\* result; otherwise next is the node to yield and (cur, stack) the iterator
\* state afterwards.  fault marks an unwrap on a missing child.
RECURSIVE iter_next(_, _, _)
iter_next(h, cur, stack) ==
    IF cur = None
    THEN [some |-> FALSE, fault |-> TRUE, cur |-> cur, stack |-> stack, next |-> None]
    ELSE IF stack # <<>> \/ ~is_nil(h, cur)
    THEN IF ~is_nil(h, cur)
         THEN iter_next(h, h[cur].left, Append(stack, cur))
         ELSE LET top == stack[Len(stack)]
              IN  [some |-> TRUE, fault |-> FALSE, cur |-> h[top].right,
                   stack |-> SubSeq(stack, 1, Len(stack) - 1), next |-> top]
    ELSE [some |-> FALSE, fault |-> FALSE, cur |-> cur, stack |-> stack, next |-> None]

\* mod.rs Iter::next called until it returns None: the (key, value) pairs
\* yielded from the iterator state (cur, stack) on, after those in acc
RECURSIVE iter_collect(_, _, _, _)
iter_collect(h, cur, stack, acc) ==
    LET r == iter_next(h, cur, stack)
    IN  IF ~r.some THEN acc
        ELSE iter_collect(h, r.cur, r.stack,
                          Append(acc, <<h[r.next].key, h[r.next].value>>))

\* mod.rs `for (k, v) in &tree`: IntoIterator for &RbTree, then Iter::next
iter(m) == iter_collect(m.heap, m.root, <<>>, <<>>)

\* the keys in iteration order
iter_keys(m) == LET it == iter(m) IN [i \in 1..Len(it) |-> it[i][1]]

\* mod.rs IntoIterator for &RbTree: the iterator starts at the root with an
\* empty stack
Iter_into_iter(m) == [cur |-> m.root, stack |-> <<>>]

\* mod.rs Iter::next: the iterator afterwards and the item, RetNone or the
\* (key, value) of the node iter_next yields
Iter_next(h, it) ==
    LET r == iter_next(h, it.cur, it.stack)
    IN  IF r.some
        THEN [it |-> [cur |-> r.cur, stack |-> r.stack], fault |-> FALSE,
              item |-> RetPair(h[r.next].key, h[r.next].value)]
        ELSE [it |-> [cur |-> it.cur, stack |-> r.stack], fault |-> r.fault,
              item |-> RetNone]

\* the iterator as it is when Iter::next first returns None
RECURSIVE Iter_exhaust(_, _)
Iter_exhaust(h, it) ==
    LET r == Iter_next(h, it)
    IN  IF r.item = RetNone THEN r.it ELSE Iter_exhaust(h, r.it)

\* mod.rs IntoIterator for &mut RbTree
IterMut_into_iter(m) == [cur |-> m.root, stack |-> <<>>]

\* mod.rs IterMut::next: the item is the key and the place of the value (the
\* node whose value the &mut V refers to)
IterMut_next(h, it) ==
    LET r == iter_next(h, it.cur, it.stack)
    IN  IF r.some
        THEN [it |-> [cur |-> r.cur, stack |-> r.stack], fault |-> FALSE,
              item |-> RetPair(h[r.next].key, r.next)]
        ELSE [it |-> [cur |-> it.cur, stack |-> r.stack], fault |-> r.fault,
              item |-> RetNone]

\* IterMut::next called until it returns None: the items yielded, after acc
RECURSIVE IterMut_collect(_, _, _)
IterMut_collect(h, it, acc) ==
    LET r == IterMut_next(h, it)
    IN  IF r.item = RetNone THEN acc ELSE IterMut_collect(h, r.it, Append(acc, r.item))

\* mod.rs `for (k, v) in &mut tree`
iter_mut(m) == IterMut_collect(m.heap, IterMut_into_iter(m), <<>>)

\* mod.rs IntoIterator for RbTree: the iterator holds the tree
IntoIter_into_iter(m) == [cur |-> m.root, stack |-> <<>>]

\* IntoIter::next that reads the key and value out and leaves key_value_moved
\* as it was
IntoIter_next_flag_kept(h, it) ==
    LET r == iter_next(h, it.cur, it.stack)
    IN  IF r.some
        THEN [heap |-> h,
              it |-> [cur |-> r.cur, stack |-> r.stack], fault |-> FALSE,
              item |-> RetPair(h[r.next].key, h[r.next].value)]
        ELSE [heap |-> h,
              it |-> [cur |-> it.cur, stack |-> r.stack], fault |-> r.fault,
              item |-> RetNone]

\* mod.rs IntoIter::next: the node yielded is marked key_value_moved and its
\* key and value are read out
IntoIter_next(h, it) ==
    LET r == iter_next(h, it.cur, it.stack)
    IN  IF r.some
        THEN [heap |-> [h EXCEPT ![r.next].key_value_moved = TRUE],
              it |-> [cur |-> r.cur, stack |-> r.stack], fault |-> FALSE,
              item |-> RetPair(h[r.next].key, h[r.next].value)]
        ELSE [heap |-> h,
              it |-> [cur |-> it.cur, stack |-> r.stack], fault |-> r.fault,
              item |-> RetNone]

\* IntoIter::next called until it returns None: the heap then, and the items
\* yielded, after acc
RECURSIVE IntoIter_collect(_, _, _)
IntoIter_collect(h, it, acc) ==
    LET r == IntoIter_next(h, it)
    IN  IF r.item = RetNone THEN [heap |-> r.heap, items |-> acc]
        ELSE IntoIter_collect(r.heap, r.it, Append(acc, r.item))

\* mod.rs `for (k, v) in tree`
into_iter(m) == IntoIter_collect(m.heap, IntoIter_into_iter(m), <<>>)

\* `for (k, v) in &mut tree { if let Some(x) = f.get(k) { *v = x } }` from the
\* iterator it on: each value yielded is assigned through its &mut V
RECURSIVE iter_mut_assign(_, _, _)
iter_mut_assign(m, it, f) ==
    LET r == IterMut_next(m.heap, it)
    IN  IF r.item = RetNone THEN m
        ELSE IF r.item[1] \in DOMAIN f
        THEN iter_mut_assign(assign(m, Ref(r.item[2], TRUE), f[r.item[1]]), r.it, f)
        ELSE iter_mut_assign(m, r.it, f)

\* ------------------------------------------------------------------ addresses
\* Addresses are only ever compared for equality (RbNode::eq), so the heap is
\* kept up to renaming: after an operation the nodes are renumbered in
\* preorder from the root, any others after them in address order.
InSeq(x, sq) == \E i \in 1..Len(sq) : sq[i] = x

RECURSIVE Visit(_, _, _)
Visit(h, n, acc) ==
    IF n = None \/ n \notin DOMAIN h \/ InSeq(n, acc) THEN acc
    ELSE Visit(h, h[n].right, Visit(h, h[n].left, Append(acc, n)))

RECURSIVE Ascending(_)
Ascending(S) ==
    IF S = {} THEN <<>>
    ELSE LET x == CHOOSE y \in S : \A z \in S : y <= z
         IN  <<x>> \o Ascending(S \ {x})

AddrOrder(h, r) ==
    LET reach == Visit(h, r, <<>>)
    IN  reach \o Ascending(DOMAIN h \ {reach[i] : i \in 1..Len(reach)})

Canon(m) ==
    LET h     == m.heap
        order == AddrOrder(h, m.root)
        idx(p) == IF p = None THEN None
                  ELSE IF p \in DOMAIN h THEN CHOOSE i \in 1..Len(order) : order[i] = p
                  ELSE Dangling
    IN  [m EXCEPT !.heap = [i \in 1..Len(order) |->
                              [h[order[i]] EXCEPT !.parent = idx(@),
                                                  !.left = idx(@),
                                                  !.right = idx(@)]],
                  !.root = idx(m.root)]

\* ------------------------------------------------------------------ machine
\* mod.rs RbTree::new
new == [heap |-> [i \in {1} |-> RawNil(None)], root |-> 1, len |-> 0,
        panic |-> NoPanic, ret |-> RetNone, recol |-> 0, rot |-> 0, cases |-> <<>>,
        rel |-> <<>>]

\* no method call is in flight and no iterator is held
NoCall == [op |-> "none", pc |-> "idle", m |-> new, key |-> NoKey, value |-> NoValue,
           cur |-> None, target |-> None, stack |-> <<>>, acc |-> <<>>]

\* the tree as the next call finds it
M == [heap |-> heap, root |-> root, len |-> len, panic |-> panic, ret |-> RetNone,
      recol |-> 0, rot |-> 0, cases |-> <<>>, rel |-> <<>>]

\* the call has returned (or aborted): its effects become the state; of its
\* result, last keeps which method ran, whether it returned Some, how many
\* recolourings and rotations it made, and the deletion cases it went through
Commit(m, op) ==
    \E c \in {Canon(m)} :
        /\ heap' = c.heap
        /\ root' = c.root
        /\ len' = c.len
        /\ panic' = c.panic
        /\ last' = [op |-> op, found |-> c.ret # RetNone, recol |-> c.recol, rot |-> c.rot,
                    cases |-> c.cases]
        /\ call' = NoCall
        /\ tick' = tick

\* the key/value map the calls so far describe
Absent == "absent"
AKeys(a) == {k \in AllKeys : a[k] # Absent}
AMin(a) == CHOOSE k \in AKeys(a) : \A j \in AKeys(a) : k <= j
AMax(a) == CHOOSE k \in AKeys(a) : \A j \in AKeys(a) : k >= j
APopFirst(a) == IF AKeys(a) = {} THEN a ELSE [a EXCEPT ![AMin(a)] = Absent]
APopLast(a) == IF AKeys(a) = {} THEN a ELSE [a EXCEPT ![AMax(a)] = Absent]

\* the program starts with the tree new() returns
Init ==
    /\ heap = new.heap
    /\ root = new.root
    /\ len = new.len
    /\ panic = new.panic
    /\ last = [op |-> "new", found |-> FALSE, recol |-> 0, rot |-> 0, cases |-> <<>>]
    /\ amap = [k \in AllKeys |-> Absent]
    /\ call = NoCall
    /\ tick = 0

\* a caller inserts: a new key only while len < MaxLen
Insert(k, v) ==
    /\ panic = NoPanic
    /\ contains_key(M, k) \/ len < MaxLen
    /\ Commit(insert(M, k, v), "insert")
    /\ amap' = [amap EXCEPT ![k] = v]

Remove(k) ==
    /\ panic = NoPanic
    /\ Commit(remove(M, k), "remove")
    /\ amap' = [amap EXCEPT ![k] = Absent]

RemoveEntry(k) ==
    /\ panic = NoPanic
    /\ Commit(remove_entry(M, k), "remove_entry")
    /\ amap' = [amap EXCEPT ![k] = Absent]

PopFirst ==
    /\ panic = NoPanic
    /\ Commit(pop_first(M), "pop_first")
    /\ amap' = APopFirst(amap)

PopLast ==
    /\ panic = NoPanic
    /\ Commit(pop_last(M), "pop_last")
    /\ amap' = APopLast(amap)

Clear ==
    /\ panic = NoPanic
    /\ Commit(clear(M), "clear")
    /\ amap' = [k \in AllKeys |-> Absent]

\* mod.rs RbTree::pop_last, unless the machine has aborted
then_pop_last(m) == IF Panicked(m) THEN m ELSE pop_last(m)

\* pop_last() called p times in turn; the counts and cases kept are those of
\* the last call
RECURSIVE pop_last_times(_, _)
pop_last_times(m, p) ==
    IF p = 0 THEN m
    ELSE pop_last_times(then_pop_last([m EXCEPT !.recol = 0, !.rot = 0, !.cases = <<>>]),
                        p - 1)

RECURSIVE APopLastTimes(_, _)
APopLastTimes(a, p) == IF p = 0 THEN a ELSE APopLastTimes(APopLast(a), p - 1)

\* a caller runs the batch <<n, p>> on an empty tree whose len is 0
Batch(n, p) ==
    /\ panic = NoPanic
    /\ is_nil(heap, root) /\ len = 0
    /\ Commit(pop_last_times(
                  insert([insert_all(M, SubSeq(BatchKeys, 1, n - 1))
                            EXCEPT !.recol = 0, !.rot = 0, !.cases = <<>>],
                         BatchKeys[n], "v1"),
                  p),
              IF p = 0 THEN "insert" ELSE "pop_last")
    /\ amap' = APopLastTimes([k \in AllKeys |->
                                 IF \E i \in 1..n : BatchKeys[i] = k
                                 THEN "v1" ELSE amap[k]], p)

\* a caller reads tree[&k]
Index(k) ==
    /\ panic = NoPanic
    /\ Commit(index(M, k), "index")
    /\ UNCHANGED amap

\* a caller runs `tree[&k] = v`
IndexMut(k, v) ==
    /\ panic = NoPanic
    /\ LET m1 == index_mut(M, k)
       IN  IF Panicked(m1) THEN Commit(m1, "index_mut")
           ELSE Commit(assign(m1, m1.ret[1], v), "index_mut")
    /\ amap' = IF amap[k] = Absent THEN amap ELSE [amap EXCEPT ![k] = v]

\* a caller calls get_mut(&k) and reads through the reference it gets
GetMut(k) ==
    /\ panic = NoPanic
    /\ Commit(get_mut(M, k), "get_mut")
    /\ UNCHANGED amap

\* a caller runs `for (k, v) in &mut tree { if let Some(x) = f.get(k) { *v = x } }`
IterMutAssign(f) ==
    /\ panic = NoPanic
    /\ Commit(iter_mut_assign(M, IterMut_into_iter(M), f), "iter_mut")
    /\ amap' = [k \in AllKeys |-> IF k \in DOMAIN f /\ amap[k] # Absent THEN f[k] ELSE amap[k]]

\* the callers store one value under every key: shape and colours of the tree
\* never depend on the values
Next ==
    \/ \E k \in Keys : Insert(k, "v1")
    \/ \E k \in Keys : Remove(k)
    \/ \E k \in Keys : RemoveEntry(k)
    \/ PopFirst
    \/ PopLast
    \/ Clear
    \/ Batch(ShortBatch[1], ShortBatch[2])

Spec == Init /\ [][Next]_vars

\* the callers store any value of Vals, under the keys of ValKeys
NextValues ==
    \/ \E k \in ValKeys, v \in Vals : Insert(k, v)
    \/ \E k \in ValKeys : Remove(k)
    \/ \E k \in ValKeys : RemoveEntry(k)
    \/ PopFirst
    \/ PopLast
    \/ Clear

SpecValues == Init /\ [][NextValues]_vars

\* the callers insert, remove and clear, and also read and write values in
\* place, under the keys of ValKeys; their mutable iteration assigns one value
\* to the entries of the keys up to some key
NextAccess ==
    \/ \E k \in ValKeys, v \in Vals : Insert(k, v)
    \/ \E k \in ValKeys : Remove(k)
    \/ Clear
    \/ \E k \in ValKeys : Index(k)
    \/ \E k \in ValKeys, v \in Vals : IndexMut(k, v)
    \/ \E k \in ValKeys : GetMut(k)
    \/ \E j \in ValKeys, x \in Vals : IterMutAssign([k \in 1..j |-> x])

SpecAccess == Init /\ [][NextAccess]_vars

\* the callers build small trees by insert, or a deep one by a batch, and
\* remove from them
NextDeep ==
    \/ \E k \in Keys : Insert(k, "v1")
    \/ \E k \in Keys : RemoveEntry(k)
    \/ \E b \in DeepBatches : Batch(b[1], b[2])

SpecDeep == Init /\ [][NextDeep]_vars

\* the callers never call clear()
NextNoClear ==
    \/ \E k \in Keys : Insert(k, "v1")
    \/ \E k \in Keys : Remove(k)
    \/ \E k \in Keys : RemoveEntry(k)
    \/ PopFirst
    \/ PopLast
    \/ Batch(ShortBatch[1], ShortBatch[2])

SpecNoClear == Init /\ [][NextNoClear]_vars

\* the sequences of distinct keys of ValKeys
CheckSeqs ==
    {ks \in UNION {[1..n -> ValKeys] : n \in 0..MaxValKey} :
        \A i, j \in 1..Len(ks) : i # j => ks[i] # ks[j]}

\* the tree of m with the node of every key k coloured c[k]: any well-formed
\* coloured tree of that shape, as check_rb_tree_attribute may be handed
Recoloured(m, c) ==
    [m EXCEPT !.heap = [n \in DOMAIN m.heap |->
        IF is_nil(m.heap, n) THEN m.heap[n]
        ELSE [m.heap[n] EXCEPT !.rb_node_type = c[m.heap[n].key]]]]

\* is_correct_rb_tree() is handed a tree built by insert, in any colouring
InitChecker ==
    \E ks \in CheckSeqs, c \in [ValKeys -> {"Red", "Black"}] :
        \E t \in {Canon(Recoloured(insert_all(new, ks), c))} :
            /\ heap = t.heap
            /\ root = t.root
            /\ len = t.len
            /\ panic = t.panic
            /\ last = [op |-> "new", found |-> FALSE, recol |-> 0, rot |-> 0, cases |-> <<>>]
            /\ amap = [k \in AllKeys |->
                         IF \E i \in 1..Len(ks) : ks[i] = k THEN "v1" ELSE Absent]
            /\ call = NoCall
            /\ tick = 0

\* a caller calls is_correct_rb_tree(); found keeps the answer
IsCorrectRbTree ==
    /\ panic = NoPanic
    /\ last' = [op |-> "is_correct_rb_tree", found |-> is_correct_rb_tree(M),
                recol |-> 0, rot |-> 0, cases |-> <<>>]
    /\ UNCHANGED <<heap, root, len, panic, amap, call, tick>>

NextChecker == IsCorrectRbTree

SpecChecker == InitChecker /\ [][NextChecker]_vars

\* ------------------------------------------------------------------ passes
\* The loops of the methods, one pass at a time.  While a call is in flight,
\* call.op is the method, call.pc the loop it is in, call.m the tree as the
\* call has changed it so far, and cur, target, stack the loop's variables;
\* acc collects what an iterator has yielded.

\* mod.rs RbTree::find_nearest_node, one pass of the loop from cur: done when
\* the loop breaks
find_pass(h, cur, key) ==
    IF cur = None \/ is_nil(h, cur) THEN [done |-> TRUE, cur |-> cur]
    ELSE IF key < h[cur].key THEN [done |-> FALSE, cur |-> h[cur].left]
    ELSE IF key > h[cur].key THEN [done |-> FALSE, cur |-> h[cur].right]
    ELSE [done |-> TRUE, cur |-> cur]

\* mod.rs RbTree::min_node, one pass of the loop from cur (a real node)
min_pass(h, cur) ==
    LET left == h[cur].left
    IN  IF left = None THEN [done |-> TRUE, cur |-> None]
        ELSE IF is_nil(h, left) THEN [done |-> TRUE, cur |-> cur]
        ELSE [done |-> FALSE, cur |-> left]

\* mod.rs RbTree::insert, one pass of the loop of cases 1 to 3 from cur; when
\* the loop breaks, cases 4 and 5 follow in the same step
insert_pass(m, cur) ==
    LET h == m.heap
        parent == h[cur].parent
    IN  IF Panicked(m) THEN [done |-> TRUE, m |-> m, cur |-> cur]
        ELSE IF parent = None THEN [done |-> TRUE, m |-> set_black(m, cur), cur |-> cur]
        ELSE IF is_black(h, parent) THEN [done |-> TRUE, m |-> m, cur |-> cur]
        ELSE
        LET grand_parent == h[parent].parent
        IN  IF grand_parent = None
            THEN [done |-> TRUE, m |-> Panic(m, "unwrap on None"), cur |-> cur]
            ELSE
            LET uncle == IF h[grand_parent].left = parent
                         THEN h[grand_parent].right
                         ELSE h[grand_parent].left
            IN  IF uncle = None
                THEN [done |-> TRUE, m |-> Panic(m, "unwrap on None"), cur |-> cur]
                ELSE IF is_black(h, uncle)
                THEN [done |-> TRUE, m |-> insert_final(m, cur), cur |-> cur]
                ELSE [done |-> FALSE,
                      m |-> set_red(set_black(set_black(m, parent), uncle), grand_parent),
                      cur |-> grand_parent]

\* mod.rs RbTree::remove_entry, one pass of the fixup loop from node; when the
\* loop breaks, cases 4 to 6 follow in the same step
remove_pass(m, node) ==
    LET h0 == m.heap
        parent == h0[node].parent
    IN  IF Panicked(m) THEN [done |-> TRUE, m |-> m, cur |-> node]
        ELSE IF parent = None THEN [done |-> TRUE, m |-> Case(m, 1), cur |-> node]
        ELSE
        LET sibling0 == sibling_of(h0, parent, node)
        IN  IF sibling0 = None
            THEN [done |-> TRUE, m |-> Panic(m, "unwrap on None"), cur |-> node]
            ELSE
            LET m1 == IF is_red(h0, sibling0)
                      THEN LET mc == set_black(set_red(Case(m, 2), parent), sibling0)
                           IN  IF h0[parent].left = node
                               THEN rotate_left(mc, parent)
                               ELSE rotate_right(mc, parent)
                      ELSE m
                h1 == m1.heap
                sibling == sibling_of(h1, parent, node)
            IN  IF Panicked(m1) THEN [done |-> TRUE, m |-> m1, cur |-> node]
                ELSE IF sibling = None
                THEN [done |-> TRUE, m |-> Panic(m1, "unwrap on None"), cur |-> node]
                ELSE
                LET c3 == black_chain(h1, is_black(h1, parent), sibling)
                IN  IF c3 = "P"
                    THEN [done |-> TRUE, m |-> Panic(m1, "unwrap on None"), cur |-> node]
                    ELSE IF c3 = "T"
                    THEN [done |-> FALSE, m |-> set_red(Case(m1, 3), sibling), cur |-> parent]
                    ELSE [done |-> TRUE, m |-> remove_final(m1, node, parent, sibling),
                          cur |-> node]

\* mod.rs RbTree::remove_entry from `target.key_value_moved = true` up to the
\* fixup loop: the tree then, whether the loop is entered, and the node it
\* starts from
remove_unlink_head(m, target, removed_key_value) ==
    LET h0 == [m.heap EXCEPT ![target].key_value_moved = TRUE]
        tl == h0[target].left
        tr == h0[target].right
    IN  IF tl = None \/ (is_nil(h0, tl) /\ tr = None)
        THEN [m |-> Panic(m, "unwrap on None"), loop |-> FALSE, child |-> None]
        ELSE
        LET child  == IF is_nil(h0, tl) THEN tr ELSE tl
            parent == h0[target].parent
            h1 == [h0 EXCEPT ![child].parent = parent]
            h2 == IF parent # None
                  THEN IF h1[parent].left = target
                       THEN [h1 EXCEPT ![parent].left = child]
                       ELSE [h1 EXCEPT ![parent].right = child]
                  ELSE h1
            root2 == IF parent # None THEN m.root ELSE child
            h3 == IF h2[target].left = child
                  THEN [h2 EXCEPT ![target].left = None]
                  ELSE [h2 EXCEPT ![target].right = None]
            target_rb_node_type == h3[target].rb_node_type
            m3 == uninit([m EXCEPT !.heap = h3, !.root = root2], target)
        IN  IF Panicked(m3) THEN [m |-> m3, loop |-> FALSE, child |-> child]
            ELSE
            LET m4 == [m3 EXCEPT !.heap = BoxDrop(m3.heap, target),
                                 !.rel = Append(@, <<"free", target>>),
                                 !.len = @ - 1,
                                 !.ret = removed_key_value]
            IN  IF target_rb_node_type = "Red"
                THEN [m |-> m4, loop |-> FALSE, child |-> child]
                ELSE IF target_rb_node_type = "Black"
                THEN IF is_red(m4.heap, child)
                     THEN [m |-> set_black(m4, child), loop |-> FALSE, child |-> child]
                     ELSE [m |-> m4, loop |-> TRUE, child |-> child]
                ELSE [m |-> Panic(m4, "unreachable"), loop |-> FALSE, child |-> child]

\* clear_pass that pushes cur back without its children
clear_pass_children_unpushed(m, stack) ==
    IF Panicked(m) \/ stack = <<>> THEN [m |-> m, stack |-> <<>>]
    ELSE
    LET cur  == stack[Len(stack)]
        rest == SubSeq(stack, 1, Len(stack) - 1)
        h    == m.heap
        l    == h[cur].left
        r    == h[cur].right
    IN  IF l = None \/ r = None
        THEN [m |-> Panic(m, "unwrap on None"), stack |-> <<>>]
        ELSE
        LET left_is_nil  == is_nil(h, l)
            right_is_nil == is_nil(h, r)
        IN  IF left_is_nil /\ right_is_nil
            THEN [m |-> uninit(m, cur), stack |-> rest]
            ELSE [m |-> m, stack |-> Append(rest, cur)]

\* mod.rs RbTree::clear, one pass of the work-stack loop
clear_pass(m, stack) ==
    IF Panicked(m) \/ stack = <<>> THEN [m |-> m, stack |-> <<>>]
    ELSE
    LET cur  == stack[Len(stack)]
        rest == SubSeq(stack, 1, Len(stack) - 1)
        h    == m.heap
        l    == h[cur].left
        r    == h[cur].right
    IN  IF l = None \/ r = None
        THEN [m |-> Panic(m, "unwrap on None"), stack |-> <<>>]
        ELSE
        LET left_is_nil  == is_nil(h, l)
            right_is_nil == is_nil(h, r)
        IN  IF left_is_nil /\ right_is_nil
            THEN [m |-> uninit(m, cur), stack |-> rest]
            ELSE [m |-> m,
                  stack |-> Append(rest, cur)
                            \o (IF ~right_is_nil THEN <<r>> ELSE <<>>)
                            \o (IF ~left_is_nil THEN <<l>> ELSE <<>>)]

\* mod.rs iter_next, one pass of the while loop: done when the function
\* returns, some when it returns Some((cur, next))
iter_next_pass(h, cur, stack) ==
    IF cur = None
    THEN [done |-> TRUE, some |-> FALSE, cur |-> cur, stack |-> stack, next |-> None]
    ELSE IF stack # <<>> \/ ~is_nil(h, cur)
    THEN IF ~is_nil(h, cur)
         THEN [done |-> FALSE, some |-> FALSE, cur |-> h[cur].left,
               stack |-> Append(stack, cur), next |-> None]
         ELSE LET top == stack[Len(stack)]
              IN  [done |-> TRUE, some |-> TRUE, cur |-> h[top].right,
                   stack |-> SubSeq(stack, 1, Len(stack) - 1), next |-> top]
    ELSE [done |-> TRUE, some |-> FALSE, cur |-> cur, stack |-> stack, next |-> None]

\* the call c has come to its return
Done(c, m) == [c EXCEPT !.pc = "done", !.m = m]

\* mod.rs RbTree::remove_entry between min_node and the fixup loop: the
\* successor's key and value move into the found node, one node is unlinked
after_min(c) ==
    LET m == c.m
        h == m.heap
        target == c.target
        right_min == c.cur
        removed_key_value == RetPair(h[target].key, h[target].value)
    IN  IF right_min = None THEN Done(c, Panic(m, "unwrap on None"))
        ELSE
        LET u == IF ~is_nil(h, right_min)
                 THEN remove_unlink_head(
                         [m EXCEPT !.heap[target].key = h[right_min].key,
                                   !.heap[target].value = h[right_min].value],
                         right_min, removed_key_value)
                 ELSE remove_unlink_head(m, target, removed_key_value)
        IN  IF u.loop THEN [c EXCEPT !.pc = "remove_loop", !.m = u.m, !.cur = u.child]
            ELSE Done(c, u.m)

\* what get, insert and remove_entry do with the node find_nearest_node
\* returned (c.cur), up to their next loop
after_find(c) ==
    LET m == c.m
        h == m.heap
        cur == c.cur
    IN  IF cur = None THEN Done(c, Panic(m, "unwrap on None"))
        ELSE IF c.op = "get"
        THEN Done(c, [m EXCEPT !.ret = IF is_nil(h, cur) THEN RetNone
                                        ELSE RetSome(h[cur].value)])
        ELSE IF c.op = "insert"
        THEN IF ~is_nil(h, cur) THEN Done(c, insert_replace(m, cur, c.value))
             ELSE LET m1 == init(m, cur, c.key, c.value, "Red")
                  IN  [c EXCEPT !.pc = "insert_loop",
                                !.m = [m1 EXCEPT !.len = @ + 1, !.ret = RetNone]]
        ELSE IF is_nil(h, cur) THEN Done(c, [m EXCEPT !.ret = RetNone])
        ELSE IF h[cur].right = None THEN Done(c, Panic(m, "unwrap on None"))
        ELSE IF is_nil(h, h[cur].right)
        THEN after_min([c EXCEPT !.target = cur, !.cur = h[cur].right])
        ELSE [c EXCEPT !.pc = "min", !.target = cur, !.cur = h[cur].right]

\* the call c after one more pass of the loop it is in
call_step(c) ==
    IF c.pc = "find"
    THEN LET r == find_pass(c.m.heap, c.cur, c.key)
         IN  IF r.done THEN after_find([c EXCEPT !.cur = r.cur])
             ELSE [c EXCEPT !.cur = r.cur]
    ELSE IF c.pc = "insert_loop"
    THEN LET r == insert_pass(c.m, c.cur)
         IN  IF r.done THEN Done(c, r.m) ELSE [c EXCEPT !.m = r.m, !.cur = r.cur]
    ELSE IF c.pc = "min"
    THEN LET r == min_pass(c.m.heap, c.cur)
         IN  IF r.done THEN after_min([c EXCEPT !.cur = r.cur])
             ELSE [c EXCEPT !.cur = r.cur]
    ELSE IF c.pc = "remove_loop"
    THEN LET r == remove_pass(c.m, c.cur)
         IN  IF r.done THEN Done(c, r.m) ELSE [c EXCEPT !.m = r.m, !.cur = r.cur]
    ELSE IF c.pc = "clear_loop"
    THEN IF c.stack = <<>> \/ Panicked(c.m) THEN Done(c, c.m)
         ELSE LET r == clear_pass(c.m, c.stack)
              IN  [c EXCEPT !.m = r.m, !.stack = r.stack]
    ELSE IF c.pc = "iter_next"
    THEN LET h == c.m.heap
             r == iter_next_pass(h, c.cur, c.stack)
         IN  IF ~r.done THEN [c EXCEPT !.cur = r.cur, !.stack = r.stack]
             ELSE IF r.some
             THEN [c EXCEPT !.pc = "iter_held", !.cur = r.cur, !.stack = r.stack,
                            !.acc = Append(@, <<h[r.next].key, h[r.next].value>>)]
             ELSE [c EXCEPT !.pc = "done", !.stack = r.stack]
    ELSE c

LoopPcs == {"find", "insert_loop", "min", "remove_loop", "clear_loop", "iter_next"}

\* a caller calls get(&k)
BeginGet(k) ==
    /\ panic = NoPanic /\ call = NoCall
    /\ call' = [NoCall EXCEPT !.op = "get", !.pc = "find", !.m = M, !.key = k,
                              !.cur = root]
    /\ UNCHANGED <<heap, root, len, panic, last, amap, tick>>

\* a caller calls insert(k, v): a new key only while len < MaxLen
BeginInsert(k, v) ==
    /\ panic = NoPanic /\ call = NoCall
    /\ contains_key(M, k) \/ len < MaxLen
    /\ call' = [NoCall EXCEPT !.op = "insert", !.pc = "find", !.m = M, !.key = k,
                              !.value = v, !.cur = root]
    /\ UNCHANGED <<heap, root, len, panic, last, amap, tick>>

\* a caller calls remove_entry(&k)
BeginRemoveEntry(k) ==
    /\ panic = NoPanic /\ call = NoCall
    /\ call' = [NoCall EXCEPT !.op = "remove_entry", !.pc = "find", !.m = M, !.key = k,
                              !.cur = root]
    /\ UNCHANGED <<heap, root, len, panic, last, amap, tick>>

\* a caller calls clear(): it returns at once on an empty tree, else the
\* work stack starts with the root
BeginClear ==
    /\ panic = NoPanic /\ call = NoCall
    /\ call' = IF is_nil(heap, root)
               THEN [NoCall EXCEPT !.op = "clear", !.pc = "done", !.m = M]
               ELSE [NoCall EXCEPT !.op = "clear", !.pc = "clear_loop", !.m = M,
                                   !.stack = <<root>>]
    /\ UNCHANGED <<heap, root, len, panic, last, amap, tick>>

\* a caller takes `(&tree).into_iter()`
BeginIter ==
    /\ panic = NoPanic /\ call = NoCall
    /\ call' = [NoCall EXCEPT !.op = "iter", !.pc = "iter_held", !.m = M, !.cur = root]
    /\ UNCHANGED <<heap, root, len, panic, last, amap, tick>>

\* the caller calls next() on the iterator it holds
IterNext ==
    /\ call.op = "iter" /\ call.pc = "iter_held"
    /\ call' = [call EXCEPT !.pc = "iter_next"]
    /\ UNCHANGED <<heap, root, len, panic, last, amap, tick>>

\* the call in flight runs one more pass of its loop
Pass ==
    /\ call.pc \in LoopPcs
    /\ call' = call_step(call)
    /\ tick' = 1 - tick
    /\ UNCHANGED <<heap, root, len, panic, last, amap>>

\* a get() in flight returns, or the iterator whose next() returned None is
\* dropped: the tree is as it was
ReturnShared ==
    /\ call.pc = "done"
    /\ call.op \in {"get", "iter"}
    /\ last' = [op |-> call.op, found |-> call.m.ret # RetNone \/ call.acc # <<>>,
                recol |-> 0, rot |-> 0, cases |-> <<>>]
    /\ call' = NoCall
    /\ tick' = 1 - tick
    /\ UNCHANGED <<heap, root, len, panic, amap>>

\* the insert(), remove_entry() or clear() in flight returns: the tree is as
\* the call left it
ReturnMut ==
    /\ call.pc = "done"
    /\ call.op \in {"insert", "remove_entry", "clear"}
    /\ heap' = call.m.heap
    /\ root' = call.m.root
    /\ len' = call.m.len
    /\ panic' = call.m.panic
    /\ last' = [op |-> call.op, found |-> call.m.ret # RetNone, recol |-> call.m.recol,
                rot |-> call.m.rot, cases |-> call.m.cases]
    /\ call' = [NoCall EXCEPT !.pc = "returned"]
    /\ tick' = 1 - tick
    /\ amap' = IF call.op = "insert" THEN [amap EXCEPT ![call.key] = call.value]
               ELSE IF call.op = "remove_entry" THEN [amap EXCEPT ![call.key] = Absent]
               ELSE [k \in AllKeys |-> Absent]

\* no step of the program: after a return the heap is kept up to renaming, as
\* Commit keeps it
Renumber ==
    /\ call.pc = "returned"
    /\ \E c \in {Canon(M)} :
          /\ heap' = c.heap
          /\ root' = c.root
    /\ call' = NoCall
    /\ UNCHANGED <<len, panic, last, amap, tick>>

\* a call is in flight: its loop is running or it is about to return
Busy == call.pc \in LoopPcs \cup {"done"}

\* the processor takes a step of the call in flight: tick is its clock, which
\* every pass and every return advances
Tick == Busy /\ tick' = 1 - tick

\* the callers' calls run pass by pass; a tree of three full Black levels
\* comes from the short batch
NextSteps ==
    \/ \E k \in ValKeys : BeginGet(k)
    \/ \E k \in ValKeys : BeginInsert(k, "v1")
    \/ \E k \in ValKeys : BeginRemoveEntry(k)
    \/ BeginClear
    \/ BeginIter
    \/ IterNext
    \/ Pass
    \/ ReturnShared
    \/ ReturnMut
    \/ Renumber
    \/ call = NoCall /\ Batch(ShortBatch[1], ShortBatch[2])

\* the program is single-threaded and synchronous: a call in flight keeps
\* running until it returns
SpecSteps == Init /\ [][NextSteps]_vars /\ WF_tick(Tick)

\* ------------------------------------------------------------------ the end of the tree
\* mod.rs Drop for RbTree: clear(), then the root's node is released; the
\* handle self.root is left dangling
drop(m) ==
    LET m1 == clear(m)
    IN  IF Panicked(m1) THEN m1
        ELSE [m1 EXCEPT !.heap = BoxDrop(m1.heap, m1.root),
                        !.rel = Append(@, <<"free", m1.root>>),
                        !.root = Dangling]

\* a caller runs `let mut it = tree.into_iter()`: the tree moves into the
\* iterator, which starts at the root with an empty stack
IntoIter ==
    /\ panic = NoPanic /\ call = NoCall
    /\ call' = [NoCall EXCEPT !.op = "into_iter", !.pc = "iter_held",
                              !.cur = IntoIter_into_iter(M).cur,
                              !.stack = IntoIter_into_iter(M).stack]
    /\ UNCHANGED <<heap, root, len, panic, last, amap, tick>>

\* the caller calls it.next(): call.target is the node yielded (None when
\* next() returns None), call.acc what the iterator has yielded so far
IntoIterNext ==
    /\ call.op = "into_iter" /\ call.pc = "iter_held"
    /\ LET it == [cur |-> call.cur, stack |-> call.stack]
           r  == IntoIter_next(heap, it)
           n  == iter_next(heap, it.cur, it.stack).next
       IN  /\ heap' = r.heap
           /\ call' = [call EXCEPT !.cur = r.it.cur, !.stack = r.it.stack,
                                   !.target = n,
                                   !.acc = IF r.item = RetNone THEN @ ELSE Append(@, r.item)]
           /\ last' = [op |-> "into_iter_next", found |-> r.item # RetNone,
                       recol |-> 0, rot |-> 0, cases |-> <<>>]
    /\ UNCHANGED <<root, len, panic, amap, tick>>

\* the tree m is dropped: nothing is left of it, call.m keeps what the drop
\* released
Dropped(m, c) ==
    \E d \in {drop(m)} :
        /\ heap' = d.heap
        /\ root' = d.root
        /\ len' = d.len
        /\ panic' = d.panic
        /\ call' = [c EXCEPT !.pc = "dropped", !.m = d]
        /\ last' = [op |-> "drop", found |-> FALSE, recol |-> 0, rot |-> 0, cases |-> <<>>]
        /\ UNCHANGED <<amap, tick>>

\* the caller drops the iterator, at any point of the iteration: the tree it
\* holds is dropped
DropIntoIter ==
    /\ call.op = "into_iter" /\ call.pc = "iter_held"
    /\ Dropped(M, call)

\* the tree goes out of scope
DropTree ==
    /\ panic = NoPanic /\ call = NoCall
    /\ Dropped(M, [NoCall EXCEPT !.op = "drop"])

\* the callers build a tree, then consume it by iteration or let it go
NextOwned ==
    \/ \E k \in ValKeys : call = NoCall /\ Insert(k, "v1")
    \/ \E k \in ValKeys : call = NoCall /\ RemoveEntry(k)
    \/ call = NoCall /\ Clear
    \/ IntoIter
    \/ IntoIterNext
    \/ DropIntoIter
    \/ DropTree

SpecOwned == Init /\ [][NextOwned]_vars

\* ------------------------------------------------------------------ the tree, as the claims see it
\* the nodes reachable from the root over left and right
Reach == LET sq == Visit(heap, root, <<>>) IN {sq[i] : i \in 1..Len(sq)}

\* the real (non-sentinel) nodes of the tree
Real == {n \in Reach : ~is_nil(heap, n)}

\* the numbers of Black nodes on the paths from n down to a sentinel, the
\* sentinel included
RECURSIVE BlackCounts(_, _)
BlackCounts(h, n) ==
    IF n = None THEN {0}
    ELSE IF is_nil(h, n) THEN {1}
    ELSE {c + (IF h[n].rb_node_type = "Black" THEN 1 ELSE 0) :
            c \in BlackCounts(h, h[n].left) \cup BlackCounts(h, h[n].right)}

StrictlyIncreasing(sq) == \A i \in 1..(Len(sq) - 1) : sq[i] < sq[i + 1]

Mutating == {"insert", "remove", "remove_entry", "pop_first", "pop_last", "clear"}

\* C1: after every public mutating operation the root is Black, or the tree is
\* empty and the root is a sentinel
C1_RootBlack ==
    last.op \in Mutating =>
        \/ heap[root].rb_node_type = "Black"
        \/ heap[root].rb_node_type = "Nil" /\ Real = {}

\* a removal has returned an entry and left a real Black root with children
C1_Witness ==
    /\ last.op = "remove_entry" /\ last.found
    /\ heap[root].rb_node_type = "Black"
    /\ Cardinality(Real) >= 3

\* C2: after every public mutating operation no Red node has a Red child
C2_NoRedRed ==
    last.op \in Mutating =>
        \A n \in Real : is_red(heap, n) =>
            /\ heap[n].left # None /\ ~is_red(heap, heap[n].left)
            /\ heap[n].right # None /\ ~is_red(heap, heap[n].right)

\* a removal has left a Red node with two real children, both Black
C2_Witness ==
    /\ last.op \in {"remove", "remove_entry"} /\ last.found
    /\ \E n \in Real :
          /\ is_red(heap, n)
          /\ ~is_nil(heap, heap[n].left) /\ is_black(heap, heap[n].left)
          /\ ~is_nil(heap, heap[n].right) /\ is_black(heap, heap[n].right)

\* C3: after every public mutating operation all paths from a node down to a
\* sentinel hold the same number of Black nodes, and is_correct_rb_tree() is
\* true, on the empty tree too
C3_BlackHeight ==
    last.op \in Mutating \cup {"new"} =>
        /\ \A n \in Reach : Cardinality(BlackCounts(heap, n)) = 1
        /\ is_correct_rb_tree(M)

\* a removal from three full Black levels has left six entries, two of them
\* Red, with three Black nodes on every path down to and including the sentinel
C3_Witness ==
    /\ last.op = "remove" /\ last.found
    /\ Cardinality(Real) = 6
    /\ Cardinality({n \in Real : is_red(heap, n)}) = 2
    /\ BlackCounts(heap, root) = {3}
    /\ is_correct_rb_tree(M)

\* C4: after every insert, remove, remove_entry, pop_first or pop_last the keys
\* come out of ascending iteration strictly increasing, each once; the tree
\* built by inserting 5,3,8,1,4,7,9 iterates as 1,3,4,5,7,8,9
C4_InOrder ==
    /\ StrictlyIncreasing(iter_keys(M))
    /\ iter_keys(insert_all(new, <<5, 3, 8, 1, 4, 7, 9>>)) = <<1, 3, 4, 5, 7, 8, 9>>

\* a removal has left at least three keys to iterate over
C4_Witness ==
    /\ last.op \in {"remove", "remove_entry", "pop_first", "pop_last"} /\ last.found
    /\ Len(iter_keys(M)) >= 3

\* C5: the tree is the key/value map the calls describe: for every key, get and
\* get_key_value return the value last inserted and not removed since, None
\* otherwise, without failing; contains_key tells which
C5_RefinesMap ==
    \A k \in AllKeys :
        /\ find_nearest_node(M, k) # None
        /\ get(M, k) = (IF amap[k] = Absent THEN RetNone ELSE RetSome(amap[k]))
        /\ get_key_value(M, k) =
               (IF amap[k] = Absent THEN RetNone ELSE RetPair(k, amap[k]))
        /\ contains_key(M, k) <=> amap[k] # Absent

\* an insert has replaced a value while one key is absent and others hold both
\* values
C5_Witness ==
    /\ last.op = "insert" /\ last.found
    /\ \E k \in Keys : amap[k] = Absent
    /\ \E j, k \in Keys : amap[j] = "v1" /\ amap[k] = "v2"
    /\ Cardinality(Real) >= 3

\* C6: with inserts and removes (pop_first and pop_last among them), len() is
\* the number of real nodes reachable from the root, and is_empty() tells
\* whether there is none
C6_LenCounts ==
    /\ len_of(M) = Cardinality(Real)
    /\ is_empty(M) <=> Cardinality(Real) = 0

\* a pop has taken an entry from a tree and left two or more
C6_Witness ==
    /\ last.op = "pop_first" /\ last.found
    /\ len_of(M) >= 2
    /\ Cardinality(Real) >= 2

\* C7: after clear(), len() is 0 and is_empty() is true
C7_ClearLenZero ==
    last.op = "clear" => len_of(M) = 0 /\ is_empty(M)

\* C8: clear() empties the tree, and clears nothing more when called again:
\* from any tree it leaves a childless sentinel root, nothing to iterate, no
\* key to get; on an empty tree it changes nothing
C8_ClearEmpties ==
    LET m1 == clear(M)
    IN  /\ ~Panicked(m1)
        /\ is_nil(m1.heap, m1.root)
        /\ m1.heap[m1.root].left = None /\ m1.heap[m1.root].right = None
        /\ DOMAIN m1.heap = {m1.root}
        /\ iter(m1) = <<>>
        /\ \A k \in AllKeys : get(m1, k) = RetNone
        /\ clear(m1) = m1
        /\ is_nil(heap, root) => m1 = M
        /\ last.op = "clear" => is_nil(heap, root) /\ Real = {} /\ clear(M) = M

\* clear() has emptied a tree of three or more entries
C8_Witness ==
    /\ last.op = "clear"
    /\ len >= 3
    /\ is_nil(heap, root)

\* C9: insert of a key the tree holds returns the old value, makes get yield
\* the new one, and changes nothing else: len, root, links, colours and the
\* other entries stay; insert of an absent key returns None
C9_Upsert ==
    \A k \in ValKeys, v \in Vals :
        LET cur == find_nearest_node(M, k)
            m1  == insert(M, k, v)
        IN  IF contains_key(M, k)
            THEN /\ m1.ret = RetSome(heap[cur].value)
                 /\ get(m1, k) = RetSome(v)
                 /\ len_of(m1) = len_of(M)
                 /\ m1.root = root
                 /\ m1.heap = [heap EXCEPT ![cur].value = v]
                 /\ ~Panicked(m1)
            ELSE m1.ret = RetNone

\* an insert has replaced a value in a tree of three or more entries
C9_Witness ==
    /\ last.op = "insert" /\ last.found
    /\ Cardinality(Real) >= 3
    /\ \E j, k \in Keys : amap[j] = "v1" /\ amap[k] = "v2"

\* C10: on a tree that holds k with value v, remove(k) returns Some(v) and
\* remove_entry(k) returns Some((k, v)); afterwards k is not in the tree, len()
\* is one less, and every other key has the value it had
C10_RemoveRoundTrip ==
    \A k \in ValKeys : contains_key(M, k) =>
        LET v  == get(M, k)[1]
            m1 == remove(M, k)
            m2 == remove_entry(M, k)
        IN  /\ ~Panicked(m1) /\ ~Panicked(m2)
            /\ m1.ret = RetSome(v)
            /\ m2.ret = RetPair(k, v)
            /\ ~contains_key(m1, k) /\ ~contains_key(m2, k)
            /\ len_of(m1) = len_of(M) - 1 /\ len_of(m2) = len_of(M) - 1
            /\ \A j \in AllKeys \ {k} : get(m1, j) = get(M, j) /\ get(m2, j) = get(M, j)

\* a removal has returned an entry and left entries with both values
C10_Witness ==
    /\ last.op \in {"remove", "remove_entry"} /\ last.found
    /\ Cardinality(Real) >= 3
    /\ \E j, k \in Keys : amap[j] = "v1" /\ amap[k] = "v2"

\* C11: remove and remove_entry of a key the tree does not hold return None
\* and leave the tree as it was: the same nodes, links, colours, keys, values,
\* root and len, and no abort
C11_AbsentRemoveUnchanged ==
    \A k \in AllKeys : amap[k] = Absent =>
        /\ remove(M, k) = M
        /\ remove_entry(M, k) = M
        /\ remove(M, k).ret = RetNone /\ remove_entry(M, k).ret = RetNone

\* a removal of an absent key has returned None on a tree of three or more
\* entries, one of them Red
C11_Witness ==
    /\ last.op \in {"remove", "remove_entry"} /\ ~last.found
    /\ Cardinality(Real) >= 3
    /\ \E n \in Real : is_red(heap, n)
    /\ \E k \in Keys : amap[k] = Absent

\* C12: on a tree that holds entries, pop_first() returns the entry of the
\* least key and pop_last() that of the greatest, the entry is gone afterwards,
\* every other key keeps its value and len() is one less; on an empty tree both
\* return None and change nothing; from the tree built by inserting
\* 5,3,8,1,4,7,9 pop_first() returns key 1 and pop_last() key 9
C12_PopMinMax ==
    LET m1 == pop_first(M)
        m2 == pop_last(M)
        built == insert_all(new, <<5, 3, 8, 1, 4, 7, 9>>)
    IN  /\ IF AKeys(amap) = {}
           THEN m1 = M /\ m2 = M
           ELSE LET lo == AMin(amap)
                    hi == AMax(amap)
                IN  /\ ~Panicked(m1) /\ ~Panicked(m2)
                    /\ m1.ret = RetPair(lo, amap[lo])
                    /\ m2.ret = RetPair(hi, amap[hi])
                    /\ get(m1, lo) = RetNone /\ get(m2, hi) = RetNone
                    /\ \A j \in AllKeys \ {lo} : get(m1, j) = get(M, j)
                    /\ \A j \in AllKeys \ {hi} : get(m2, j) = get(M, j)
                    /\ len_of(m1) = len_of(M) - 1 /\ len_of(m2) = len_of(M) - 1
        /\ pop_first(built).ret = RetPair(1, "v1")
        /\ pop_last(built).ret = RetPair(9, "v1")

\* pop_last() has returned an entry and left three or more, holding both values
C12_Witness ==
    /\ last.op = "pop_last" /\ last.found
    /\ Cardinality(Real) >= 3
    /\ \E j, k \in Keys : amap[j] = "v1" /\ amap[k] = "v2"

\* the entries of the map a, as (key, value) pairs in ascending key order
AEntries(a) ==
    LET ks == Ascending(AKeys(a))
    IN  [i \in 1..Len(ks) |-> <<ks[i], a[ks[i]]>>]

\* C13: iterating a tree yields the (key, value) pair of every entry once, in
\* strictly increasing key order, and then None on every further call (the
\* exhausted iterator is left as it is by next()); iterating by shared
\* reference, by mutable reference and by value yield the same keys in the same
\* order
C13_SinglePass ==
    LET it0  == Iter_into_iter(M)
        done == Iter_exhaust(heap, it0)
        more == Iter_next(heap, done)
        muts == iter_mut(M)
        owns == into_iter(M).items
    IN  /\ iter(M) = AEntries(amap)
        /\ StrictlyIncreasing(iter_keys(M))
        /\ Len(iter(M)) = Cardinality(Real)
        /\ more.item = RetNone /\ ~more.fault /\ more.it = done
        /\ [i \in 1..Len(muts) |-> muts[i][1]] = iter_keys(M)
        /\ \A i \in 1..Len(muts) : heap[muts[i][2]].key = muts[i][1]
        /\ owns = iter(M)

\* a removal has left a tree of five or more entries whose root has real
\* grandchildren on both sides to iterate over
C13_Witness ==
    /\ last.op \in {"remove", "remove_entry"} /\ last.found
    /\ Len(iter(M)) >= 5
    /\ \E n \in Real : heap[n].parent # None /\ heap[n].parent # root
                         /\ heap[heap[n].parent].parent = root
                         /\ heap[root].left = heap[n].parent
    /\ \E n \in Real : heap[n].parent # None /\ heap[n].parent # root
                         /\ heap[heap[n].parent].parent = root
                         /\ heap[root].right = heap[n].parent

\* C14: tree[k] for a key the tree does not hold aborts with "key not found"
\* and leaves the tree as it was; for a key it holds it returns the value get(k)
\* returns and nothing aborts; get, get_key_value, get_mut, remove and
\* remove_entry of an absent key return None without aborting, so the only
\* abort a caller ever sees is that of an indexed access
C14_IndexAbsentPanics ==
    /\ panic = NoPanic =>
          \A k \in AllKeys :
              IF amap[k] = Absent
              THEN /\ index(M, k) = [M EXCEPT !.panic = "key not found"]
                   /\ index_mut(M, k) = [M EXCEPT !.panic = "key not found"]
                   /\ find_nearest_node(M, k) # None
                   /\ get(M, k) = RetNone /\ get_key_value(M, k) = RetNone
                   /\ get_mut(M, k) = M
                   /\ remove(M, k) = M /\ remove_entry(M, k) = M
              ELSE /\ index(M, k) = [M EXCEPT !.ret = get(M, k)]
                   /\ LET r == index_mut(M, k)
                      IN  /\ r = [M EXCEPT !.ret = r.ret]
                          /\ RetSome(heap[r.ret[1].node].value) = get(M, k)
    /\ panic # NoPanic =>
          /\ panic = "key not found"
          /\ last.op \in {"index", "index_mut"} /\ ~last.found
          /\ \A k \in AllKeys :
                get([M EXCEPT !.panic = NoPanic], k) =
                    (IF amap[k] = Absent THEN RetNone ELSE RetSome(amap[k]))

\* tree[k] has aborted on a tree of three or more entries that lacks k
C14_Witness ==
    /\ last.op = "index" /\ panic = "key not found"
    /\ Cardinality(Real) >= 3
    /\ \E k \in ValKeys : amap[k] = Absent

\* C15: a stored value can be changed through get_mut, through index_mut and
\* through mutable iteration, and the change is of that value only: keys,
\* colours, links, root and len stay as they were
C15_OnlyValueChanges ==
    panic = NoPanic =>
        /\ \A k \in ValKeys, v \in Vals : amap[k] # Absent =>
              LET cur  == find_nearest_node(M, k)
                  only == [M EXCEPT !.heap[cur].value = v]
                  g    == get_mut(M, k)
                  x    == index_mut(M, k)
              IN  /\ g = [M EXCEPT !.ret = g.ret] /\ g.ret # RetNone
                  /\ g.ret[1].mutable
                  /\ assign(M, g.ret[1], v) = only
                  /\ x = [M EXCEPT !.ret = x.ret] /\ x.ret # RetNone
                  /\ x.ret[1].mutable
                  /\ assign(M, x.ret[1], v) = only
        /\ \A f \in [ValKeys -> Vals] :
              iter_mut_assign(M, IterMut_into_iter(M), f) =
                  [M EXCEPT !.heap = [n \in DOMAIN heap |->
                      IF ~is_nil(heap, n) /\ heap[n].key \in DOMAIN f
                      THEN [heap[n] EXCEPT !.value = f[heap[n].key]]
                      ELSE heap[n]]]

\* C16: for every well-formed coloured tree, is_correct_rb_tree() returns true
\* exactly when the root is Black (or the tree empty), no Red node has a Red
\* child, and all paths from a node down to a sentinel hold the same number of
\* Black nodes
C16_CheckerIff ==
    last.op = "is_correct_rb_tree" =>
        (last.found <=>
            /\ heap[root].rb_node_type = "Black" \/ is_nil(heap, root)
            /\ \A n \in Real : is_red(heap, n) =>
                   ~is_red(heap, heap[n].left) /\ ~is_red(heap, heap[n].right)
            /\ \A n \in Reach : Cardinality(BlackCounts(heap, n)) = 1)

\* C17: no call of insert, remove, remove_entry, pop_first, pop_last or clear,
\* in any sequence from new(), invokes set_black() or set_red() on a sentinel:
\* the abort "Modifying Nil is prohibited" has not happened and does not
\* happen in whichever call comes next
C17_NoSentinelRecolour ==
    LET nil_abort(m) == m.panic = "Modifying Nil is prohibited"
    IN  /\ ~nil_abort(M)
        /\ \A k \in AllKeys :
              /\ ~nil_abort(insert(M, k, "v1"))
              /\ ~nil_abort(remove(M, k))
              /\ ~nil_abort(remove_entry(M, k))
        /\ ~nil_abort(pop_first(M))
        /\ ~nil_abort(pop_last(M))
        /\ ~nil_abort(clear(M))

\* a removal has made six or more recolourings and returned its entry
C17_Witness ==
    /\ last.op \in {"remove", "remove_entry"} /\ last.found
    /\ last.recol >= 6
    /\ panic = NoPanic

\* the nodes of heap h reachable from r over left and right
ReachOf(h, r) == LET sq == Visit(h, r, <<>>) IN {sq[i] : i \in 1..Len(sq)}

\* C18: when remove_entry, remove, pop_first, pop_last or clear release a node,
\* the children it still has are sentinels: the aborts "Left child is not Nil"
\* and "Right child is not Nil" do not happen; a removal releases the unlinked
\* node and its one remaining sentinel and nothing else, every node left is
\* still in the tree, and the entries left are the others; clear releases all
\* but the root
C18_ReleaseOnlyLeaves ==
    LET child_abort(m) == m.panic \in {"Left child is not Nil", "Right child is not Nil"}
        kept(m, k) ==
            /\ ~Panicked(m)
            /\ Cardinality(DOMAIN m.heap) = Cardinality(DOMAIN heap) - 2
            /\ ReachOf(m.heap, m.root) = DOMAIN m.heap
            /\ iter(m) = AEntries([amap EXCEPT ![k] = Absent])
    IN  /\ ~child_abort(M)
        /\ \A k \in AllKeys :
              /\ ~child_abort(remove_entry(M, k)) /\ ~child_abort(remove(M, k))
              /\ amap[k] # Absent => kept(remove_entry(M, k), k) /\ kept(remove(M, k), k)
        /\ ~child_abort(pop_first(M)) /\ ~child_abort(pop_last(M))
        /\ ~child_abort(clear(M))
        /\ DOMAIN clear(M).heap = {clear(M).root}

\* a removal has returned its entry and left a tree in which a node with two
\* real children, the left one with real children of its own, holds a key
C18_Witness ==
    /\ last.op = "remove_entry" /\ last.found
    /\ \E n \in Real :
          /\ ~is_nil(heap, heap[n].left) /\ ~is_nil(heap, heap[n].right)
          /\ ~is_nil(heap, heap[heap[n].right].left)
          /\ amap[heap[n].key] # Absent

\* the links of the tree (h, r) are well formed: the root has no parent, every
\* real node has two children that are nodes and differ, every sentinel has
\* none, every child names as its parent the node that holds it, and no node
\* is held twice
WellLinked(h, r) ==
    LET nodes == ReachOf(h, r)
        holds(p, c) == h[p].left = c \/ h[p].right = c
    IN  /\ r \in DOMAIN h /\ h[r].parent = None
        /\ \A n \in nodes :
              IF is_nil(h, n)
              THEN h[n].left = None /\ h[n].right = None
              ELSE /\ h[n].left \in DOMAIN h /\ h[n].right \in DOMAIN h
                   /\ h[n].left # h[n].right
                   /\ h[h[n].left].parent = n /\ h[h[n].right].parent = n
        /\ \A c \in nodes : Cardinality({p \in nodes : holds(p, c)}) = (IF c = r THEN 0 ELSE 1)

\* C19: after every public mutating operation the links are well formed: real
\* nodes have exactly two children, sentinels none, parent and child links
\* agree, the root has no parent, and what hangs from the root is a tree
C19_WellLinked ==
    last.op \in Mutating => WellLinked(heap, root)

\* an insert of a new key has left five or more entries, with real
\* grandchildren on both sides of the root
C19_Witness ==
    /\ last.op = "insert" /\ ~last.found
    /\ Cardinality(Real) >= 5
    /\ \E n \in Real : ~is_nil(heap, heap[n].left) /\ heap[n].parent = root
                         /\ heap[root].left = n
    /\ \E n \in Real : ~is_nil(heap, heap[n].right) /\ heap[n].parent = root
                         /\ heap[root].right = n

\* the rotation that took the tree M to m1 by promoting child over node kept
\* what a rotation must keep
RotationKeeps(m1, node, child) ==
    /\ ~Panicked(m1)
    /\ iter(m1) = iter(M)
    /\ DOMAIN m1.heap = DOMAIN heap
    /\ \A n \in DOMAIN heap :
          /\ m1.heap[n].key = heap[n].key
          /\ m1.heap[n].value = heap[n].value
          /\ m1.heap[n].key_value_moved = heap[n].key_value_moved
          /\ m1.heap[n].rb_node_type = heap[n].rb_node_type
    /\ WellLinked(m1.heap, m1.root)
    /\ ReachOf(m1.heap, m1.root) = Reach
    /\ m1.heap[node].parent = child
    /\ m1.heap[child].parent = heap[node].parent
    /\ IF node = root
       THEN m1.root = child /\ m1.heap[child].parent = None
       ELSE m1.root = root
    /\ m1.len = len

\* C20: on every tree and every real node of it whose right (left) child is
\* real, rotate_left (rotate_right) keeps the in-order sequence of entries,
\* every key, value and colour, and well-formed links, puts the child above the
\* node, and when the node is the root makes the child the root, with no parent
C20_RotationsKeepOrder ==
    \A node \in Real :
        /\ ~is_nil(heap, heap[node].right) =>
              LET m1 == rotate_left(M, node)
              IN  /\ RotationKeeps(m1, node, heap[node].right)
                  /\ m1.heap[heap[node].right].left = node
                  /\ m1.heap[node].right = heap[heap[node].right].left
        /\ ~is_nil(heap, heap[node].left) =>
              LET m1 == rotate_right(M, node)
              IN  /\ RotationKeeps(m1, node, heap[node].left)
                  /\ m1.heap[heap[node].left].right = node
                  /\ m1.heap[node].left = heap[heap[node].left].right

\* an insert has made two rotations and left a root whose two children are
\* real, one of them with a real child on its inner side
C20_Witness ==
    /\ last.op = "insert" /\ last.rot = 2
    /\ ~is_nil(heap, heap[root].left) /\ ~is_nil(heap, heap[root].right)
    /\ \/ ~is_nil(heap, heap[heap[root].left].right)
       \/ ~is_nil(heap, heap[heap[root].right].left)

\* the sequence t of deletion cases one removal went through is one the fixup
\* allows: case 3 is the only case followed by a pass of the loop, case 2
\* happens at most once and is followed by case 4, 5 or 6, case 5 is followed
\* by case 6, and cases 1, 4 and 6 end the fixup
CaseTraceAllowed(t) ==
    /\ Cardinality({i \in DOMAIN t : t[i] = 2}) <= 1
    /\ \A i \in DOMAIN t :
          /\ t[i] \in {1, 4, 6} <=> i = Len(t)
          /\ t[i] = 2 => t[i + 1] \in {4, 5, 6}
          /\ t[i] = 3 => t[i + 1] \in {1, 2, 3, 4, 5, 6}
          /\ t[i] = 5 => t[i + 1] = 6
          /\ i > 1 /\ t[i] \in {1, 2, 3} => t[i - 1] = 3
    /\ (\E i \in DOMAIN t : t[i] = 2) => t[Len(t)] \in {4, 6}

\* C21: in the deletion fixup only case 3 is followed by another pass of the
\* loop; case 2 is applied at most once in a removal, case 3 never follows it,
\* and the fixup then ends through case 4 or through case 6, which case 5 may
\* precede.  Checked on the removal just made and on the removal of every key
\* from the tree reached
C21_Case2Once ==
    /\ CaseTraceAllowed(last.cases)
    /\ \A k \in AllKeys : CaseTraceAllowed(remove_entry(M, k).cases)

\* a removal has gone through case 3, then one level up through case 2, and
\* ended in case 4
C21_Witness ==
    /\ last.op = "remove_entry"
    /\ last.cases = <<3, 2, 4>>

\* C22: an insert makes at most two rotations and a removal at most three.
\* Checked on the operation just made and on the insert and the removal of
\* every key from the tree reached
C22_RotationBound ==
    /\ last.op = "insert" => last.rot <= 2
    /\ last.op \in {"remove", "remove_entry", "pop_first", "pop_last"} => last.rot <= 3
    /\ \A k \in AllKeys :
          /\ insert(M, k, "v1").rot <= 2
          /\ remove_entry(M, k).rot <= 3

\* a removal has made three rotations: one in case 2, one in case 5 and one
\* in case 6
C22_Witness ==
    /\ last.op = "remove_entry"
    /\ last.rot = 3
    /\ last.cases = <<2, 5, 6>>

\* the call that has come to its return did what the method does in one go
StepsAgree ==
    call.pc = "done" =>
        IF call.op = "get" THEN call.m.ret = get(M, call.key)
        ELSE IF call.op = "insert" THEN call.m = insert(M, call.key, call.value)
        ELSE IF call.op = "remove_entry" THEN call.m = remove_entry(M, call.key)
        ELSE IF call.op = "clear" THEN call.m = clear(M)
        ELSE call.acc = iter(M)

\* C23: every call terminates: whenever a call is in flight (in the search
\* walk, the successor walk, the insert recolouring loop, the deletion fixup
\* loop, the work-stack loop of clear() or a step of an iterator), it later
\* has returned
C23_Terminates == Busy ~> ~Busy

\* a removal has come to its return after its fixup loop moved up two levels
\* to the root
C23_Witness ==
    /\ call.op = "remove_entry" /\ call.pc = "done"
    /\ call.m.cases = <<3, 3, 1>>

\* C24: in owning iteration the node of an entry is released as the entry is
\* yielded: once next() has returned an entry, the node it came from is no
\* longer allocated
C24_YieldedNodeFreed ==
    (call.op = "into_iter" /\ call.pc = "iter_held" /\ call.target # None)
        => call.target \notin DOMAIN heap

\* the events of the release log that free a node, and those that drop the
\* key and value of key k
Frees(log) == {i \in DOMAIN log : log[i][1] = "free"}
Drops(log, k) == {i \in DOMAIN log : log[i] = <<"drop", k>>}
Yields(acc, k) == {i \in DOMAIN acc : acc[i][1] = k}

\* C25: while the tree lives, after every call the allocated nodes are two
\* for each real node and one more; a removal hands its pair to the caller
\* and drops none; and once the tree is dropped (after any calls, after
\* clear(), after an owning iteration left at any point) no node is left,
\* every node it had was freed once and no node twice, and the key and value
\* of every entry were either yielded to the caller or dropped, once in all
C25_ReleasedOnce ==
    /\ call.pc # "dropped" =>
          /\ Cardinality(DOMAIN heap) = 2 * Cardinality(Real) + 1
          /\ \A k \in ValKeys :
                LET r == remove_entry(M, k)
                IN  /\ \A j \in AllKeys : Drops(r.rel, j) = {}
                    /\ Cardinality(Frees(r.rel)) = IF r.ret = RetNone THEN 0 ELSE 2
    /\ call.pc = "dropped" =>
          LET log == call.m.rel
          IN  /\ DOMAIN heap = {}
              /\ \A i, j \in Frees(log) : log[i][2] = log[j][2] => i = j
              /\ Cardinality(Frees(log)) = 2 * Cardinality(AKeys(amap)) + 1
              /\ \A k \in AllKeys :
                    Cardinality(Drops(log, k)) + Cardinality(Yields(call.acc, k))
                        = IF amap[k] # Absent THEN 1 ELSE 0

\* an owning iteration over three or more entries was left after it had
\* yielded some of them, and the tree was dropped with the rest
C25_Witness ==
    /\ call.op = "into_iter" /\ call.pc = "dropped"
    /\ Len(call.acc) >= 1
    /\ \E k \in AllKeys : Drops(call.m.rel, k) # {}
    /\ Cardinality(AKeys(amap)) >= 3

====
